---- MODULE Spec2Model ----
(***************************************************************************)
(* Goal list page ("fisica" page; the "financeira" and "familiar" pages    *)
(* carry the same code with another storage key, category tag and default  *)
(* set).  The model keeps the module-scoped state of the page, the goal    *)
(* list element of the document, the persisted store and the clock, and    *)
(* has one action per event handler.                                       *)
(*                                                                         *)
(* A text is a sequence of fragments; the fragment " " is one whitespace   *)
(* character, every other fragment is a run of non-whitespace characters.  *)
(* A Goal object is a record [id, text, completed, time, ref]: time = ""   *)
(* stands for an absent `time`, and ref names the object's identity as far *)
(* as the code can observe it: ref = k > 0 says the object IS the k-th     *)
(* object of the defaultGoals array (show() copies the array with a        *)
(* spread, not the objects), ref = 0 says it is an object of its own (made *)
(* by handleAddGoal or read back from the store).                          *)
(***************************************************************************)
EXTENDS Integers, Sequences, FiniteSets, TLC

VARIABLES
    goals,          \* let goals: Goal[]
    defaultGoals,   \* const defaultGoals: Goal[] (the objects are mutable)
    store,          \* value under STORAGE_KEYS.FISICA_GOALS: "absent" or a list
    goalsList,      \* children of elements.goalsList (the <li> elements)
    now,            \* the value Date.now() returned last
    gesture,        \* native drag gesture: "none", "drag" or "dropped"
    last,           \* what the last handler did (event, calls it made)
    allReflections,      \* reflections page: let allReflections: Reflection[]
    filteredReflections, \* reflections page: let filteredReflections
    elements,            \* reflections page: the controls and the card list
    unifiedReflections,  \* value under STORAGE_KEYS.UNIFIED_REFLECTIONS
    clockNow,            \* reflections page: what new Date() reads
    timers,              \* reflections page: the timeouts that are pending
    assets,              \* financeira page: let assets: Asset[]
    editingAssetId,      \* financeira page: let editingAssetId ("" is null)
    financeAssets,       \* value under STORAGE_KEYS.FINANCE_ASSETS
    assetElements,       \* financeira page: the edit modal and the asset rows
    pendingConfirm       \* financeira page: the confirmAction call awaited

\* the state of the reflections page
reflVars ==
    <<allReflections, filteredReflections, elements, unifiedReflections,
      clockNow, timers>>

\* the state of the goal page
goalVars == <<goals, defaultGoals, store, goalsList, now, gesture>>

\* the state of the asset table of the financeira page
assetVars ==
    <<assets, editingAssetId, financeAssets, assetElements, pendingConfirm>>

vars == <<goalVars, reflVars, assetVars, last>>

----------------------------------------------------------------------------
(* Bounds *)

NumDefaults == 1    \* how many of the default goals the model keeps
MaxGoals == 3       \* handleAddGoal is not offered beyond this length
MaxClock == 2       \* Date.now() ranges over 1..MaxClock
LiHeight == 100     \* height of one <li> box; the k-th box starts at (k-1)*LiHeight

CATEGORY == "fisica"

EmptyText == << >>

\* What the user may type in the add form.
TypedTexts == { <<" ">>, <<" ", "a", " ">> }

\* What the user may type in the inline editor.
EditTexts == { <<" ">>, <<" ", "b", " ">> }

----------------------------------------------------------------------------
(* Pure helpers *)

\* String.prototype.trim
RECURSIVE TrimLeft(_)
TrimLeft(t) ==
    IF t = EmptyText THEN EmptyText
    ELSE IF Head(t) = " " THEN TrimLeft(Tail(t)) ELSE t

RECURSIVE TrimRight(_)
TrimRight(t) ==
    IF t = EmptyText THEN EmptyText
    ELSE IF t[Len(t)] = " " THEN TrimRight(SubSeq(t, 1, Len(t) - 1)) ELSE t

\* Mutant of Trim: the text is taken as typed.
TrimForgotten(t) == t

Trim(t) == TrimRight(TrimLeft(t))

\* Date.now().toString()
NewId(clock) == ToString(clock)

\* The five default goals of the page, as the source lists them.
AllDefaultGoals ==
    << [id |-> "fisica-1", text |-> <<"Realizar", " ", "30-45", " ", "minutos">>,
        completed |-> FALSE, time |-> ""],
       [id |-> "fisica-2", text |-> <<"Fazer", " ", "um", " ", "treino">>,
        completed |-> FALSE, time |-> ""],
       [id |-> "fisica-3", text |-> <<"Dedicar", " ", "10", " ", "minutos">>,
        completed |-> FALSE, time |-> ""],
       [id |-> "fisica-4", text |-> <<"Gerenciar", " ", "estresse">>,
        completed |-> FALSE, time |-> ""],
       [id |-> "fisica-5", text |-> <<"Manter", " ", "a", " ", "hidratacao">>,
        completed |-> FALSE, time |-> ""] >>

InitialDefaultGoals == SubSeq(AllDefaultGoals, 1, NumDefaults)

\* The fields of a Goal object, without its identity.
Fields(g) ==
    [id |-> g.id, text |-> g.text, completed |-> g.completed, time |-> g.time]

Own(f) ==
    [id |-> f.id, text |-> f.text, completed |-> f.completed, time |-> f.time,
     ref |-> 0]

\* Mutant of FindIndex: "not found" comes out as the last index.
FindIndexOrLast(gs, id) ==
    IF \E k \in 1..Len(gs) : gs[k].id = id
    THEN CHOOSE k \in 1..Len(gs) :
            gs[k].id = id /\ \A j \in 1..(k - 1) : gs[j].id # id
    ELSE Len(gs)

\* goals.findIndex(g => g.id === id): 1-based, 0 for "not found" (-1)
FindIndex(gs, id) ==
    IF \E k \in 1..Len(gs) : gs[k].id = id
    THEN CHOOSE k \in 1..Len(gs) :
            gs[k].id = id /\ \A j \in 1..(k - 1) : gs[j].id # id
    ELSE 0


\* storageService.set serialises the list (the objects' fields, by value),
\* storageService.get parses it into objects of their own.
Serialize(gs) == [k \in 1..Len(gs) |-> Fields(gs[k])]

Deserialize(v) == [k \in 1..Len(v) |-> Own(v[k])]

AbsentStore == [present |-> FALSE, value |-> << >>]

StoreSet(gs) == [present |-> TRUE, value |-> Serialize(gs)]

\* A snapshot left by an earlier session: one goal made at clock value 0.
SavedSnapshot ==
    << [id |-> NewId(0), text |-> <<"saved">>, completed |-> TRUE,
        time |-> "08:00"] >>

InitialStores ==
    { AbsentStore, [present |-> TRUE, value |-> SavedSnapshot] }

\* DOMPurify.sanitize: drops the fragments that are unsafe markup.
UnsafeFragments == { "<script>" }

Sanitize(t) == SelectSeq(t, LAMBDA f : f \notin UnsafeFragments)

----------------------------------------------------------------------------
(* The goal list element *)

\* <li class="empty-list-placeholder">: no data-id, not draggable
PlaceholderLi ==
    [id |-> "", text |-> EmptyText, completed |-> FALSE, time |-> "",
     editing |-> FALSE, value |-> EmptyText, dragging |-> FALSE,
     pending |-> FALSE, source |-> FALSE, placeholder |-> TRUE]

\* The <li> renderGoals builds for one goal.  editing: class "editing" and an
\* .item-edit-input child, whose value is `value`; dragging: class "dragging";
\* pending: a dragstart timeout holding this element has not fired yet;
\* source: the element the running drag gesture started on.
NewLi(g) ==
    [id |-> g.id, text |-> Sanitize(g.text), completed |-> g.completed,
     time |-> g.time, editing |-> FALSE, value |-> EmptyText,
     dragging |-> FALSE, pending |-> FALSE, source |-> FALSE,
     placeholder |-> FALSE]

\* First index at which the sequence of booleans holds, 0 when there is none
\* (querySelector: the first match in document order, or null).
FirstTrue(bs) ==
    IF \E k \in 1..Len(bs) : bs[k]
    THEN CHOOSE k \in 1..Len(bs) : bs[k] /\ \A j \in 1..(k - 1) : ~bs[j]
    ELSE 0

\* querySelector('.item-edit-input')?.closest('li')
FirstEditing(lst) == FirstTrue([k \in 1..Len(lst) |-> lst[k].editing])

\* querySelector('.dragging')
FirstDragging(lst) == FirstTrue([k \in 1..Len(lst) |-> lst[k].dragging])

\* e.target of dragend
FirstSource(lst) == FirstTrue([k \in 1..Len(lst) |-> lst[k].source])

\* an element a pending dragstart timeout holds
FirstPending(lst) == FirstTrue([k \in 1..Len(lst) |-> lst[k].pending])

\* goalsList.querySelector('.item-edit-input')?.closest('li')?.dataset.id
CurrentlyEditingId(lst) ==
    IF FirstEditing(lst) = 0 THEN ""
    ELSE lst[FirstEditing(lst)].id

\* goalsList.querySelector(`li[data-id="${id}"]`)
LiWithId(lst, id) == FirstTrue([k \in 1..Len(lst) |-> lst[k].id = id])

\* goals.find(g => g.id === li.dataset.id)?.text || ''
CurrentText(gs, id) ==
    IF FindIndex(gs, id) = 0 THEN EmptyText ELSE gs[FindIndex(gs, id)].text

\* enterEditMode(li), up to input.focus(): the class, the input, its value
EnterEditMode(lst, k, gs) ==
    [lst EXCEPT ![k].editing = TRUE, ![k].value = CurrentText(gs, lst[k].id)]

\* Mutant of RenderGoals: the list is not emptied before it is filled.
RenderGoalsNoClear(gs, lst) ==
    lst \o [k \in 1..Len(gs) |-> NewLi(gs[k])]

\* renderGoals(): the new children of the list, given the goals and the
\* children before the call (where the open editor is looked up)
RenderGoals(gs, lst) ==
    LET currentlyEditingId == CurrentlyEditingId(lst)
        fresh == [k \in 1..Len(gs) |-> NewLi(gs[k])]
        liToEdit == LiWithId(fresh, currentlyEditingId)
    IN  IF Len(gs) = 0 THEN << PlaceholderLi >>
        ELSE IF currentlyEditingId # "" /\ liToEdit # 0
             THEN EnterEditMode(fresh, liToEdit, gs)
             ELSE fresh

----------------------------------------------------------------------------
(* Drag and drop *)

\* Where the pointer may be during a dragover: in the upper half of each box
\* and below the last box.
PointerYs == { k * LiHeight + 20 : k \in 0..MaxGoals }

\* box.top and box.height of the k-th child (getBoundingClientRect)
BoxTop(k) == (k - 1) * LiHeight

\* getDragAfterElement: the reduce over the children that are not .dragging,
\* from child k on; closest is [element, offset2], element = 0 standing for
\* { offset: -Infinity, element: null }.  Offsets are kept doubled
\* (2*y - 2*top - height) so that height/2 needs no fraction.
\* Mutant of Reduce: the candidate with the smaller offset wins.
RECURSIVE ReduceFarthest(_, _, _, _)
ReduceFarthest(lst, y, k, closest) ==
    IF k > Len(lst) THEN closest
    ELSE IF lst[k].dragging THEN ReduceFarthest(lst, y, k + 1, closest)
    ELSE LET offset2 == 2 * y - 2 * BoxTop(k) - LiHeight
         IN  IF offset2 < 0 /\ (closest.element = 0 \/ offset2 < closest.offset2)
             THEN ReduceFarthest(lst, y, k + 1,
                                 [element |-> k, offset2 |-> offset2])
             ELSE ReduceFarthest(lst, y, k + 1, closest)

RECURSIVE Reduce(_, _, _, _)
Reduce(lst, y, k, closest) ==
    IF k > Len(lst) THEN closest
    ELSE IF lst[k].dragging THEN Reduce(lst, y, k + 1, closest)
    ELSE LET offset2 == 2 * y - 2 * BoxTop(k) - LiHeight
         IN  IF offset2 < 0 /\ (closest.element = 0 \/ offset2 > closest.offset2)
             THEN Reduce(lst, y, k + 1, [element |-> k, offset2 |-> offset2])
             ELSE Reduce(lst, y, k + 1, closest)

GetDragAfterElement(lst, y) ==
    Reduce(lst, y, 1, [element |-> 0, offset2 |-> 0]).element

Without(lst, k) == SubSeq(lst, 1, k - 1) \o SubSeq(lst, k + 1, Len(lst))

\* list.appendChild(draggingItem)
AppendChild(lst, d) == Without(lst, d) \o << lst[d] >>

\* list.insertBefore(draggingItem, afterElement), d # after
InsertBefore(lst, d, after) ==
    LET rest == Without(lst, d)
        pos == IF after > d THEN after - 1 ELSE after
    IN  SubSeq(rest, 1, pos - 1) \o << lst[d] >> \o SubSeq(rest, pos, Len(rest))

\* Array.from(list.querySelectorAll('li')).map(li => li.dataset.id)
OrderedIds(lst) == [k \in 1..Len(lst) |-> lst[k].id]

\* newOrderedIds.indexOf(id): 0-based, -1 when absent
IndexOf(ids, id) ==
    IF \E k \in 1..Len(ids) : ids[k] = id
    THEN (CHOOSE k \in 1..Len(ids) :
            ids[k] = id /\ \A j \in 1..(k - 1) : ids[j] # id) - 1
    ELSE -1

\* x || 0
OrZero(x) == IF x = 0 THEN 0 ELSE x

\* Mutant of Compare: the operands of the subtraction swapped.
CompareSwapped(a, b, ids) ==
    OrZero(IndexOf(ids, b.id)) - OrZero(IndexOf(ids, a.id))

\* the comparator handed to goals.sort
Compare(a, b, ids) == OrZero(IndexOf(ids, a.id)) - OrZero(IndexOf(ids, b.id))

\* Array.prototype.sort is stable: g goes behind every element that does not
\* compare greater than it.
RECURSIVE InsertSorted(_, _, _)
InsertSorted(sorted, g, ids) ==
    IF sorted = << >> THEN << g >>
    ELSE IF Compare(sorted[Len(sorted)], g, ids) <= 0 THEN Append(sorted, g)
    ELSE Append(InsertSorted(SubSeq(sorted, 1, Len(sorted) - 1), g, ids),
                sorted[Len(sorted)])

RECURSIVE SortFrom(_, _, _, _)
SortFrom(gs, k, sorted, ids) ==
    IF k > Len(gs) THEN sorted
    ELSE SortFrom(gs, k + 1, InsertSorted(sorted, gs[k], ids), ids)

\* goals.sort((a, b) => ...)
SortGoals(gs, ids) == SortFrom(gs, 1, << >>, ids)

----------------------------------------------------------------------------
(* Writes to Goal objects: an object of defaultGoals is written in place *)

DefaultsAfterWrite(defs, g) ==
    IF g.ref = 0 THEN defs ELSE [defs EXCEPT ![g.ref] = Fields(g)]

\* what one handler did: the event, the id it was aimed at, the number of
\* storageService.set calls and renderGoals calls, the hook calls' arguments
Did(op, target, writes, renders, hooks) ==
    [op |-> op, target |-> target, writes |-> writes, renders |-> renders,
     hooks |-> hooks]

TypeOK ==
    /\ now \in 1..MaxClock
    /\ gesture \in {"none", "drag", "dropped"}
    /\ store.present \in BOOLEAN
    /\ Len(defaultGoals) = NumDefaults
    /\ \A k \in 1..Len(goals) : goals[k].ref \in 0..NumDefaults

----------------------------------------------------------------------------
(* Reflections page: the log, the filter controls and the derived view *)

\* Ticks (the clock's resolution, 1 ms in the program) in one day; the
\* program's day has 24 * 60 * 60 * 1000 of them.
DayLength == 2

\* The names of categoryMap the model keeps; no stored entry is "Social".
CategoryNames == { "Fisica", "Mental", "Social" }

\* A title or text is a sequence of characters.  Entries of the log, as
\* other pages stored them; R2 and R4 carry the same timestamp.
R1 ==
    [id |-> "r1", category |-> "Fisica", title |-> << "A" >>,
     text |-> << "b" >>, date |-> "d1", timestamp |-> 1]

R2 ==
    [id |-> "r2", category |-> "Mental", title |-> << "b" >>,
     text |-> << "a", "b" >>, date |-> "d1", timestamp |-> 2]

R3 ==
    [id |-> "r3", category |-> "Fisica", title |-> << "b" >>,
     text |-> << "B" >>, date |-> "d2", timestamp |-> 3]

R4 ==
    [id |-> "r4", category |-> "Fisica", title |-> << "a" >>,
     text |-> << "a" >>, date |-> "d1", timestamp |-> 2]

\* What may be stored under the reflections key when the page is shown.
InitialLogs ==
    { << >>, << R1, R2, R3 >>, << R3, R4, R2, R1 >>, << R2, R4, R3 >>,
      << R4, R2 >> }

InitialReflectionStores ==
    { [present |-> FALSE, value |-> << >>] }
        \cup { [present |-> TRUE, value |-> log] : log \in InitialLogs }

\* What the user may type in the search box.
SearchTerms == { << >>, << "A" >>, << "a", "b" >> }

\* The option values of the date and sort selects.
DateRanges == { "all", "today", "week", "month" }

SortOrders == { "desc", "asc" }

\* What new Date() may read: on the first day (before some entries were
\* written), on the second day, and on days more than a week and more than
\* a month after the entries were written.
ClockNows == { 1, DayLength + 1, 8 * DayLength + 1, 31 * DayLength + 1 }

\* String.prototype.toLowerCase
LowerOf(c) == IF c = "A" THEN "a" ELSE IF c = "B" THEN "b" ELSE c

ToLowerCase(s) == [k \in 1..Len(s) |-> LowerOf(s[k])]

\* String.prototype.includes
Includes(s, term) ==
    \E i \in 0..(Len(s) - Len(term)) : SubSeq(s, i + 1, i + Len(term)) = term

\* result.filter(r => r.text...includes(searchTerm) || r.title...includes(searchTerm))
SearchFilter(result, searchTerm) ==
    SelectSeq(result,
              LAMBDA r : \/ Includes(ToLowerCase(r.text), searchTerm)
                         \/ Includes(ToLowerCase(r.title), searchTerm))

\* Mutant of CategoryFilter: the entries of the category are the ones dropped.
CategoryFilterInverted(result, category) ==
    SelectSeq(result, LAMBDA r : r.category # category)

\* result.filter(r => r.category === category)
CategoryFilter(result, category) ==
    SelectSeq(result, LAMBDA r : r.category = category)

\* todayStart.setHours(0, 0, 0, 0): local midnight of the day of t
StartOfDay(t) == t - (t % DayLength)

\* now.setHours(23, 59, 59, 999): the last tick of the day of t
EndOfDay(t) == StartOfDay(t) + DayLength - 1

\* Mutant of StartTime: the week and the month are counted from midnight.
StartTimeFromMidnight(dateRange, t) ==
    CASE dateRange = "today" -> StartOfDay(t)
      [] dateRange = "week" -> StartOfDay(t) - 7 * DayLength
      [] dateRange = "month" -> StartOfDay(t) - 30 * DayLength
      [] OTHER -> 0

\* the switch over dateRange
StartTime(dateRange, t) ==
    CASE dateRange = "today" -> StartOfDay(t)
      [] dateRange = "week" -> EndOfDay(t) - 7 * DayLength
      [] dateRange = "month" -> EndOfDay(t) - 30 * DayLength
      [] OTHER -> 0

\* result.filter(r => r.timestamp >= startTime)
DateFilter(result, startTime) ==
    SelectSeq(result, LAMBDA r : r.timestamp >= startTime)

\* Mutant of CompareTimestamps: the two orders exchanged.
CompareTimestampsSwapped(a, b, sortOrder) ==
    IF sortOrder = "desc" THEN a.timestamp - b.timestamp
    ELSE b.timestamp - a.timestamp

\* (a, b) => sortOrder === 'desc' ? b.timestamp - a.timestamp : a.timestamp - b.timestamp
CompareTimestamps(a, b, sortOrder) ==
    IF sortOrder = "desc" THEN b.timestamp - a.timestamp
    ELSE a.timestamp - b.timestamp

\* Array.prototype.sort is stable: r goes behind every entry that does not
\* compare greater than it.
RECURSIVE InsertByTimestamp(_, _, _)
InsertByTimestamp(sorted, r, sortOrder) ==
    IF sorted = << >> THEN << r >>
    ELSE IF CompareTimestamps(sorted[Len(sorted)], r, sortOrder) <= 0
         THEN Append(sorted, r)
         ELSE Append(InsertByTimestamp(SubSeq(sorted, 1, Len(sorted) - 1), r,
                                       sortOrder),
                     sorted[Len(sorted)])

RECURSIVE SortReflectionsFrom(_, _, _, _)
SortReflectionsFrom(result, k, sorted, sortOrder) ==
    IF k > Len(result) THEN sorted
    ELSE SortReflectionsFrom(result, k + 1,
                             InsertByTimestamp(sorted, result[k], sortOrder),
                             sortOrder)

\* result.sort((a, b) => ...)
SortReflections(result, sortOrder) ==
    SortReflectionsFrom(result, 1, << >>, sortOrder)

\* applyFilters(): the value it leaves in filteredReflections, given the log,
\* the controls and the reading of the clock
ApplyFilters(log, el, t) ==
    LET searchTerm == ToLowerCase(el.searchInput)
        category == el.categoryFilter
        dateRange == el.dateFilter
        sortOrder == el.sortFilter
        searched == IF searchTerm # << >> THEN SearchFilter(log, searchTerm)
                    ELSE log
        ofCategory == IF category # "all"
                      THEN CategoryFilter(searched, category)
                      ELSE searched
        inRange == IF dateRange # "all"
                   THEN DateFilter(ofCategory, StartTime(dateRange, t))
                   ELSE ofCategory
    IN  SortReflections(inRange, sortOrder)

\* renderReflections(), after applyFilters(): the cards of the list
\* container (by data-id) and the display of the empty-state element
RenderReflections(el, filtered) ==
    [el EXCEPT !.cards = [k \in 1..Len(filtered) |-> filtered[k].id],
               !.emptyState = IF Len(filtered) = 0 THEN "block" ELSE "none"]

\* The controls after setup(), before the user touched them.
ElementsAfterSetup(sortOrder) ==
    [searchInput |-> << >>, categoryFilter |-> "all", dateFilter |-> "all",
     sortFilter |-> sortOrder, cards |-> << >>, emptyState |-> "none"]

\* No timeout is pending and no confirmation dialog is open: debounce says
\* that a debounced render is pending, confirming is the id a confirmAction
\* call is awaited for ("" for none), removals lists the ids the pending
\* 300 ms timeouts of confirmed deletes will remove, oldest first.
NoTimers == [debounce |-> FALSE, confirming |-> "", removals |-> << >>]

\* The reflections page while the goal page is worked with.
ReflectionsPageAtRest ==
    /\ allReflections = << >>
    /\ filteredReflections = << >>
    /\ elements = ElementsAfterSetup("desc")
    /\ unifiedReflections = [present |-> FALSE, value |-> << >>]
    /\ clockNow = DayLength + 1
    /\ timers = NoTimers

----------------------------------------------------------------------------
(* Financeira page: the asset table, its edit modal and its store *)

NumDefaultAssets == 1   \* how many of the default assets the model keeps
MaxAssets == 2          \* handleAddAsset is not offered beyond this length

\* years after the purchase at which renderAssets shows the replacement
ReplacementYears == 7

\* A purchase date is the year of a day the date input holds; the value of
\* an empty date input is EmptyDate.
EmptyDate == 0

\* The default assets show() builds when the store holds none.
AllDefaultAssets ==
    << [id |-> "default-1", name |-> <<"Notebook">>, purchaseDate |-> 2014],
       [id |-> "default-2", name |-> <<"Geladeira">>, purchaseDate |-> 2015] >>

DefaultAssets == SubSeq(AllDefaultAssets, 1, NumDefaultAssets)

\* What the user may put in the add form of the asset table.
TypedAssetNames == { <<" ">>, <<" ", "n", " ">> }

TypedAssetDates == { EmptyDate, 2020 }

\* What the user may put in the inputs of the edit modal.
EditedAssetNames == { <<" ">>, <<" ", "m", " ">> }

EditedAssetDates == { EmptyDate, 2021 }

\* The value under FINANCE_ASSETS when the page is loaded: nothing, or the
\* empty list an earlier session left after removing every asset.
InitialAssetStores == { AbsentStore, [present |-> TRUE, value |-> << >>] }

\* storageService.set(STORAGE_KEYS.FINANCE_ASSETS, assets)
AssetStoreSet(as) == [present |-> TRUE, value |-> as]

\* one <tr> of renderAssets
AssetRow(a) ==
    [id |-> a.id, name |-> Sanitize(a.name), purchaseDate |-> a.purchaseDate,
     replacementDate |-> a.purchaseDate + ReplacementYears]

\* the row renderAssets shows for an empty list
PlaceholderRow ==
    [id |-> "", name |-> << >>, purchaseDate |-> EmptyDate,
     replacementDate |-> EmptyDate]

\* renderAssets(): the rows of elements.assetList
RenderAssets(as) ==
    IF Len(as) = 0
    THEN << PlaceholderRow >>
    ELSE [k \in 1..Len(as) |-> AssetRow(as[k])]

\* openAssetEditModal(asset), but for editingAssetId
OpenAssetEditModal(el, asset) ==
    [el EXCEPT !.nameEdit = asset.name,
               !.dateEdit = asset.purchaseDate,
               !.modal = "flex"]

\* assets.filter(a => a.id !== id)
FilterOutAsset(as, id) == SelectSeq(as, LAMBDA a : a.id # id)

\* The asset table after setup(), before show().
AssetTableAtRest ==
    /\ assets = << >>
    /\ editingAssetId = ""
    /\ financeAssets = AbsentStore
    /\ assetElements =
          [nameInput |-> << >>, dateInput |-> EmptyDate, modal |-> "none",
           nameEdit |-> << >>, dateEdit |-> EmptyDate, rows |-> << >>]
    /\ pendingConfirm = ""

----------------------------------------------------------------------------
(* Initial state: the module is loaded and setup() has run *)

Init ==
    /\ goals = << >>
    /\ defaultGoals = InitialDefaultGoals
    /\ store \in InitialStores
    /\ goalsList = << >>
    /\ now = 1
    /\ gesture = "none"
    /\ last = Did("setup", "", 0, 0, << >>)
    /\ ReflectionsPageAtRest
    /\ AssetTableAtRest

----------------------------------------------------------------------------
(* Actions *)

\* When the page takes an event that is no part of a drag gesture: no native
\* gesture is running (the browser sends no other input events during one),
\* and the 0 ms timeout of the last dragstart has fired.
Idle == gesture = "none" /\ FirstPending(goalsList) = 0

\* A gesture starts with a pointer press on the <li>, which takes the focus
\* from an open editor (whose blur listener redraws the list) first.
CanStartDrag == Idle /\ FirstEditing(goalsList) = 0

\* show()
Show ==
    /\ Idle
    /\ LET savedGoals == store
           loaded ==
               IF savedGoals.present /\ Len(savedGoals.value) > 0
               THEN Deserialize(savedGoals.value)
               ELSE [k \in 1..Len(defaultGoals) |->
                        [id |-> defaultGoals[k].id,
                         text |-> defaultGoals[k].text,
                         completed |-> defaultGoals[k].completed,
                         time |-> defaultGoals[k].time,
                         ref |-> k]]
       IN  /\ goals' = loaded
           /\ goalsList' = RenderGoals(loaded, goalsList)
    /\ last' = Did("show", "", 0, 1, << >>)
    /\ UNCHANGED <<defaultGoals, store, now, gesture>>
    /\ UNCHANGED <<reflVars, assetVars>>

\* Mutant of Unshift: the new goal is pushed at the end.
Pushed(gs, g) == Append(gs, g)

\* goals.unshift(g)
Unshift(gs, g) == << g >> \o gs

\* handleAddGoal (submit of the add form); typed is what the user has put in
\* elements.goalInput since the handler last emptied it, clock is what
\* Date.now() returns
HandleAddGoalOf(typed, clock) ==
    /\ Idle
    /\ Len(goals) < MaxGoals
    /\ LET text == Trim(typed)
       IN  IF text # EmptyText
           THEN LET added == Unshift(goals,
                                     [id |-> NewId(clock), text |-> text,
                                      completed |-> FALSE, time |-> "",
                                      ref |-> 0])
                IN  /\ goals' = added
                    /\ store' = StoreSet(added)
                    /\ goalsList' = RenderGoals(added, goalsList)
                    /\ now' = clock
                    /\ last' = Did("add", NewId(clock), 1, 1, << >>)
           ELSE /\ last' = Did("add-blank", "", 0, 0, << >>)
                /\ UNCHANGED <<goals, store, goalsList, now>>
    /\ UNCHANGED <<defaultGoals, gesture>>
    /\ UNCHANGED <<reflVars, assetVars>>

\* the clock never runs backwards and may stand still between two calls
HandleAddGoal ==
    \E typed \in TypedTexts \cup { EmptyText }, clock \in now..MaxClock :
        HandleAddGoalOf(typed, clock)

\* Mutant of HookCalls: the hook is called on every toggle.
HookCallsOnEveryToggle(goal, wasCompleted) == << CATEGORY >>

\* if (goal.completed && !wasCompleted) awardMedalForCategory('fisica'):
\* the arguments of the calls made
HookCalls(goal, wasCompleted) ==
    IF goal.completed /\ ~wasCompleted THEN << CATEGORY >> ELSE << >>

\* The parts of an <li> a click can land on; "label" is the .item-text label,
\* "time" the .item-time span, which no branch of the handler matches.
ClickParts == { "edit-btn", "delete-btn", "checkbox", "label", "time" }

\* Mutant of SaveEdit: the commit builds the goal anew, without its time.
SaveEditDroppingTime(lst, k, gs, defs, st) ==
    LET newText == Trim(lst[k].value)
        goalId == lst[k].id
        idx == FindIndex(gs, goalId)
    IN  IF newText # EmptyText /\ goalId # "" /\ idx # 0
        THEN LET goal == [gs[idx] EXCEPT !.text = newText, !.time = ""]
                 gs2 == [gs EXCEPT ![idx] = goal]
             IN  [goals |-> gs2, defaults |-> DefaultsAfterWrite(defs, goal),
                  store |-> StoreSet(gs2), list |-> RenderGoals(gs2, lst),
                  writes |-> 1]
        ELSE [goals |-> gs, defaults |-> defs, store |-> st,
              list |-> RenderGoals(gs, lst), writes |-> 0]

\* saveEdit of the editor of lst[k]: the goals, the default objects, the
\* store and the list it leaves, and the number of store writes
SaveEdit(lst, k, gs, defs, st) ==
    LET newText == Trim(lst[k].value)
        goalId == lst[k].id
        idx == FindIndex(gs, goalId)
    IN  IF newText # EmptyText /\ goalId # "" /\ idx # 0
        THEN LET goal == [gs[idx] EXCEPT !.text = newText]
                 gs2 == [gs EXCEPT ![idx] = goal]
             IN  [goals |-> gs2, defaults |-> DefaultsAfterWrite(defs, goal),
                  store |-> StoreSet(gs2), list |-> RenderGoals(gs2, lst),
                  writes |-> 1]
        ELSE [goals |-> gs, defaults |-> defs, store |-> st,
              list |-> RenderGoals(gs, lst), writes |-> 0]

\* Mutant of ReturnsEarly: the handler has no guard on the class "editing".
ReturnsEarlyUnlessEditing(li, goalIndex) ==
    li.id = "" \/ goalIndex = 0

\* the early returns of handleGoalAction: a <li> without data-id, a <li> in
\* edit mode, an id the collection does not hold
ReturnsEarly(li, goalIndex) ==
    li.id = "" \/ li.editing \/ goalIndex = 0

\* handleGoalAction (click inside the list)
HandleGoalAction ==
    /\ Idle
    /\ \E i \in 1..Len(goalsList), part \in ClickParts :
        LET li == goalsList[i]
            goalId == li.id
            goalIndex == FindIndex(goals, goalId)
        IN  IF ReturnsEarly(li, goalIndex)
            THEN /\ last' = Did("click-ignored", goalId, 0, 0, << >>)
                 /\ UNCHANGED <<goals, defaultGoals, store, goalsList>>
            ELSE CASE part = "edit-btn" ->
                        \* enterEditMode(li); input.focus() blurs the editor
                        \* that had the focus, whose blur listener is saveEdit
                        LET entered == EnterEditMode(goalsList, i, goals)
                            other == FirstEditing(goalsList)
                        IN  IF other = 0
                            THEN /\ goalsList' = entered
                                 /\ last' = Did("edit", goalId, 0, 0, << >>)
                                 /\ UNCHANGED <<goals, defaultGoals, store>>
                            ELSE LET r == SaveEdit(entered, other, goals,
                                                   defaultGoals, store)
                                 IN  /\ goals' = r.goals
                                     /\ defaultGoals' = r.defaults
                                     /\ store' = r.store
                                     /\ goalsList' = r.list
                                     /\ last' = Did("edit", goalId, r.writes,
                                                    1, << >>)
                   [] part = "delete-btn" ->
                        LET spliced == SubSeq(goals, 1, goalIndex - 1)
                                       \o SubSeq(goals, goalIndex + 1,
                                                 Len(goals))
                        IN  /\ goals' = spliced
                            /\ store' = StoreSet(spliced)
                            /\ goalsList' = RenderGoals(spliced, goalsList)
                            /\ last' = Did("delete", goalId, 1, 1, << >>)
                            /\ UNCHANGED defaultGoals
                   [] part \in {"checkbox", "label"} ->
                        LET wasCompleted == goals[goalIndex].completed
                            goal == [goals[goalIndex] EXCEPT
                                        !.completed = ~wasCompleted]
                            toggled == [goals EXCEPT ![goalIndex] = goal]
                        IN  /\ goals' = toggled
                            /\ defaultGoals' =
                                   DefaultsAfterWrite(defaultGoals, goal)
                            /\ store' = StoreSet(toggled)
                            /\ goalsList' = RenderGoals(toggled, goalsList)
                            /\ last' = Did("toggle", goalId, 1, 1,
                                           HookCalls(goal, wasCompleted))
                   [] OTHER ->
                        /\ last' = Did("click-ignored", goalId, 0, 0, << >>)
                        /\ UNCHANGED <<goals, defaultGoals, store, goalsList>>
    /\ UNCHANGED <<now, gesture>>
    /\ UNCHANGED <<reflVars, assetVars>>

\* the user types in the inline editor
TypeEdit ==
    /\ Idle
    /\ \E k \in 1..Len(goalsList), t \in EditTexts :
        /\ goalsList[k].editing
        /\ t # goalsList[k].value
        /\ goalsList' = [goalsList EXCEPT ![k].value = t]
        /\ last' = Did("type-edit", goalsList[k].id, 0, 0, << >>)
    /\ UNCHANGED <<goals, defaultGoals, store, now, gesture>>
    /\ UNCHANGED <<reflVars, assetVars>>

\* blur of the inline editor: saveEdit
Blur ==
    /\ Idle
    /\ \E k \in 1..Len(goalsList) :
        /\ goalsList[k].editing
        /\ LET r == SaveEdit(goalsList, k, goals, defaultGoals, store)
           IN  /\ goals' = r.goals
               /\ defaultGoals' = r.defaults
               /\ store' = r.store
               /\ goalsList' = r.list
               /\ last' = Did("blur", goalsList[k].id, r.writes, 1, << >>)
    /\ UNCHANGED <<now, gesture>>
    /\ UNCHANGED <<reflVars, assetVars>>

Keys == { "Enter", "Escape", "Tab" }

\* keydown listener of the inline editor
KeyDown ==
    /\ Idle
    /\ \E k \in 1..Len(goalsList), key \in Keys :
        /\ goalsList[k].editing
        /\ CASE key = "Enter" ->
                    \* input.blur() dispatches blur: saveEdit
                    LET r == SaveEdit(goalsList, k, goals, defaultGoals, store)
                    IN  /\ goals' = r.goals
                        /\ defaultGoals' = r.defaults
                        /\ store' = r.store
                        /\ goalsList' = r.list
                        /\ last' = Did("enter", goalsList[k].id, r.writes, 1,
                                       << >>)
             [] key = "Escape" ->
                    /\ goalsList' = RenderGoals(goals, goalsList)
                    /\ last' = Did("escape", goalsList[k].id, 0, 1, << >>)
                    /\ UNCHANGED <<goals, defaultGoals, store>>
             [] OTHER ->
                    /\ last' = Did("key", goalsList[k].id, 0, 0, << >>)
                    /\ UNCHANGED <<goals, defaultGoals, store, goalsList>>
    /\ UNCHANGED <<now, gesture>>
    /\ UNCHANGED <<reflVars, assetVars>>

\* dragstart on a draggable <li>: the class is set by a timeout of 0 ms
DragStart ==
    /\ CanStartDrag
    /\ \E i \in 1..Len(goalsList) :
        /\ ~goalsList[i].placeholder
        /\ ~goalsList[i].editing
        /\ goalsList' = [goalsList EXCEPT ![i].pending = TRUE,
                                          ![i].source = TRUE]
        /\ last' = Did("dragstart", goalsList[i].id, 0, 0, << >>)
    /\ gesture' = "drag"
    /\ UNCHANGED <<goals, defaultGoals, store, now>>
    /\ UNCHANGED <<reflVars, assetVars>>

\* the timeout of a dragstart fires: target.classList.add('dragging')
DragTimer ==
    /\ \E i \in 1..Len(goalsList) :
        /\ goalsList[i].pending
        /\ goalsList' = [goalsList EXCEPT ![i].pending = FALSE,
                                          ![i].dragging = TRUE]
        /\ last' = Did("dragtimer", goalsList[i].id, 0, 0, << >>)
    /\ UNCHANGED <<goals, defaultGoals, store, now, gesture>>
    /\ UNCHANGED <<reflVars, assetVars>>

\* Mutant of DragOver: the preview order is committed at once.
DragOverCommits ==
    /\ gesture = "drag"
    /\ \E y \in PointerYs :
        LET draggingItem == FirstDragging(goalsList)
            afterElement == GetDragAfterElement(goalsList, y)
            moved == IF draggingItem = 0 THEN goalsList
                     ELSE IF afterElement = 0
                          THEN AppendChild(goalsList, draggingItem)
                          ELSE InsertBefore(goalsList, draggingItem,
                                            afterElement)
        IN  /\ goalsList' = moved
            /\ goals' = SortGoals(goals, OrderedIds(moved))
            /\ last' = Did("dragover", "", 0, 0, << >>)
    /\ UNCHANGED <<defaultGoals, store, now, gesture>>
    /\ UNCHANGED <<reflVars, assetVars>>

\* dragover at pointer height y
DragOver ==
    /\ gesture = "drag"
    /\ \E y \in PointerYs :
        LET draggingItem == FirstDragging(goalsList)
            afterElement == GetDragAfterElement(goalsList, y)
        IN  /\ goalsList' =
                   IF draggingItem = 0 THEN goalsList
                   ELSE IF afterElement = 0
                        THEN AppendChild(goalsList, draggingItem)
                        ELSE InsertBefore(goalsList, draggingItem, afterElement)
            /\ last' = Did("dragover", "", 0, 0, << >>)
    /\ UNCHANGED <<goals, defaultGoals, store, now, gesture>>
    /\ UNCHANGED <<reflVars, assetVars>>

\* Mutant of Drop: the new order is not written to the store.
DropUnsaved ==
    /\ gesture = "drag"
    /\ IF FirstDragging(goalsList) = 0
       THEN /\ last' = Did("drop-ignored", "", 0, 0, << >>)
            /\ UNCHANGED goals
       ELSE LET newOrderedIds == OrderedIds(goalsList)
                sorted == SortGoals(goals, newOrderedIds)
            IN  /\ goals' = sorted
                /\ last' = Did("drop", "", 0, 0, << >>)
    /\ gesture' = "dropped"
    /\ UNCHANGED <<defaultGoals, store, goalsList, now>>
    /\ UNCHANGED <<reflVars, assetVars>>

\* drop on the list
Drop ==
    /\ gesture = "drag"
    /\ IF FirstDragging(goalsList) = 0
       THEN /\ last' = Did("drop-ignored", "", 0, 0, << >>)
            /\ UNCHANGED <<goals, store>>
       ELSE LET newOrderedIds == OrderedIds(goalsList)
                sorted == SortGoals(goals, newOrderedIds)
            IN  /\ goals' = sorted
                /\ store' = StoreSet(sorted)
                /\ last' = Did("drop", "", 1, 0, << >>)
    /\ gesture' = "dropped"
    /\ UNCHANGED <<defaultGoals, goalsList, now>>
    /\ UNCHANGED <<reflVars, assetVars>>

\* dragend on the element the gesture started on; a gesture takes a pointer
\* movement and a release, by which time the 0 ms timeout has fired
DragEnd ==
    /\ gesture \in {"drag", "dropped"}
    /\ FirstPending(goalsList) = 0
    /\ LET target == FirstSource(goalsList)
       IN  /\ goalsList' = [goalsList EXCEPT ![target].dragging = FALSE,
                                             ![target].source = FALSE]
           /\ last' = Did("dragend", goalsList[target].id, 0, 0, << >>)
    /\ gesture' = "none"
    /\ UNCHANGED <<goals, defaultGoals, store, now>>
    /\ UNCHANGED <<reflVars, assetVars>>

\* Sessions worked with clicks, the add form and the inline editor.
Next ==
    \/ Show
    \/ HandleAddGoal
    \/ HandleGoalAction
    \/ TypeEdit
    \/ Blur
    \/ KeyDown

Spec == Init /\ [][Next]_vars

\* Sessions worked with clicks, the add form, drag gestures and the inline
\* editor left as it was opened (nothing typed in it).
NextDrag ==
    \/ Show
    \/ HandleAddGoal
    \/ HandleGoalAction
    \/ Blur
    \/ KeyDown
    \/ DragStart
    \/ DragTimer
    \/ DragOver
    \/ Drop
    \/ DragEnd

SpecDrag == Init /\ [][NextDrag]_vars

----------------------------------------------------------------------------
(* Reflections page: initial state and actions *)

\* setup() has run; the goal page is not worked with
InitReflections ==
    /\ goals = << >>
    /\ defaultGoals = InitialDefaultGoals
    /\ store = AbsentStore
    /\ goalsList = << >>
    /\ now = 1
    /\ gesture = "none"
    /\ last = Did("setup", "", 0, 0, << >>)
    /\ AssetTableAtRest
    /\ allReflections = << >>
    /\ filteredReflections = << >>
    /\ \E sortOrder \in SortOrders : elements = ElementsAfterSetup(sortOrder)
    /\ unifiedReflections \in InitialReflectionStores
    /\ clockNow \in ClockNows
    /\ timers = NoTimers

\* renderReflections() with the log `log` and the controls `el`
Rendered(log, el, op) ==
    LET filtered == ApplyFilters(log, el, clockNow)
    IN  /\ filteredReflections' = filtered
        /\ elements' = RenderReflections(el, filtered)
        /\ last' = Did(op, "", 0, 1, << >>)

\* show(): loadReflections(), renderReflections()
ShowReflections ==
    /\ LET loaded == IF unifiedReflections.present
                     THEN unifiedReflections.value
                     ELSE << >>
       IN  /\ allReflections' = loaded
           /\ Rendered(loaded, elements, "show-reflections")
    /\ UNCHANGED <<unifiedReflections, clockNow, timers, goalVars, assetVars>>

\* change of the category select: renderReflections
CategoryChange ==
    /\ \E category \in { "all" } \cup CategoryNames :
        /\ category # elements.categoryFilter
        /\ Rendered(allReflections,
                    [elements EXCEPT !.categoryFilter = category],
                    "category-change")
    /\ UNCHANGED <<allReflections, unifiedReflections, clockNow, timers,
                   goalVars, assetVars>>

\* change of the date select: renderReflections
DateChange ==
    /\ \E dateRange \in DateRanges :
        /\ dateRange # elements.dateFilter
        /\ Rendered(allReflections, [elements EXCEPT !.dateFilter = dateRange],
                    "date-change")
    /\ UNCHANGED <<allReflections, unifiedReflections, clockNow, timers,
                   goalVars, assetVars>>

\* Mutant of SortChange: the log itself is sorted, not a copy of it.
SortChangeInPlace ==
    /\ \E sortOrder \in SortOrders :
        /\ sortOrder # elements.sortFilter
        /\ Rendered(allReflections, [elements EXCEPT !.sortFilter = sortOrder],
                    "sort-change")
        /\ allReflections' = SortReflections(allReflections, sortOrder)
    /\ UNCHANGED <<unifiedReflections, clockNow, timers, goalVars, assetVars>>

\* change of the sort select: renderReflections
SortChange ==
    /\ \E sortOrder \in SortOrders :
        /\ sortOrder # elements.sortFilter
        /\ Rendered(allReflections, [elements EXCEPT !.sortFilter = sortOrder],
                    "sort-change")
    /\ UNCHANGED <<allReflections, unifiedReflections, clockNow, timers,
                   goalVars, assetVars>>

\* Mutant of SearchInput: the input listener renders at once.
SearchInputRenders ==
    /\ \E term \in SearchTerms :
        /\ term # elements.searchInput
        /\ Rendered(allReflections, [elements EXCEPT !.searchInput = term],
                    "search-input")
    /\ UNCHANGED <<allReflections, unifiedReflections, clockNow, timers,
                   goalVars, assetVars>>

\* input in the search box: debouncedRender (the pending call, if any, is
\* replaced by a new one)
SearchInput ==
    /\ \E term \in SearchTerms :
        /\ term # elements.searchInput
        /\ elements' = [elements EXCEPT !.searchInput = term]
    /\ timers' = [timers EXCEPT !.debounce = TRUE]
    /\ last' = Did("search-input", "", 0, 0, << >>)
    /\ UNCHANGED <<allReflections, filteredReflections, unifiedReflections,
                   clockNow, goalVars, assetVars>>

\* the quiet period of the debounce has elapsed: renderReflections
DebouncedRender ==
    /\ timers.debounce
    /\ Rendered(allReflections, elements, "debounced-render")
    /\ timers' = [timers EXCEPT !.debounce = FALSE]
    /\ UNCHANGED <<allReflections, unifiedReflections, clockNow, goalVars, assetVars>>

\* Sessions on the reflections page: showing it, filtering and searching.
NextReflections ==
    \/ ShowReflections
    \/ CategoryChange
    \/ DateChange
    \/ SortChange
    \/ SearchInput
    \/ DebouncedRender

SpecReflections == InitReflections /\ [][NextReflections]_vars

----------------------------------------------------------------------------
(* Claims *)

NoEditor(lst) == \A k \in 1..Len(lst) : ~lst[k].editing

\* C1: a load that finds the persisted snapshot absent or empty yields the
\* original defaults (same ids, same texts, every completed = FALSE), whatever
\* was done before to a collection loaded from the defaults.
C1_FreshLoadYieldsDefaults ==
    (last.op = "show" /\ (~store.present \/ Len(store.value) = 0))
        => Serialize(goals) = InitialDefaultGoals

\* C2: no two items of the collection have the same id.
C2_IdsUnique ==
    \A i, j \in 1..Len(goals) : i # j => goals[i].id # goals[j].id

\* C3: saving an edit session (Enter or loss of focus) ends with the list
\* re-rendered and no item in edit mode.
C3_SaveLeavesEditMode ==
    last.op \in {"blur", "enter"}
        => (last.renders = 1 /\ NoEditor(goalsList))

\* C4: cancelling an edit session (Escape) mutates nothing, writes nothing to
\* the store, and leaves the item out of edit mode showing its original text.
C4_CancelLeavesEditMode ==
    [][ last'.op = "escape"
        => /\ goals' = goals
           /\ store' = store
           /\ last'.writes = 0
           /\ NoEditor(goalsList')
           /\ LET x == LiWithId(goalsList', last'.target)
              IN  x # 0 /\ goalsList'[x].text = CurrentText(goals, last'.target)
      ]_vars

\* C5: when another item is toggled while an item is in edit mode, that item
\* is still in edit mode after the redraw, its editor holds the text it held
\* before, and its stored text is unchanged.
C5_EditorSurvivesToggle ==
    [][ (last'.op = "toggle" /\ ~NoEditor(goalsList))
        => LET x == FirstEditing(goalsList)
               id == goalsList[x].id
               x2 == LiWithId(goalsList', id)
           IN  /\ x2 # 0
               /\ goalsList'[x2].editing
               /\ goalsList'[x2].value = goalsList[x].value
               /\ CurrentText(goals', id) = CurrentText(goals, id)
      ]_vars

IdsOf(gs) == [k \in 1..Len(gs) |-> gs[k].id]

DistinctIds(gs) == \A i, j \in 1..Len(gs) : i # j => gs[i].id # gs[j].id

\* ids lists exactly the ids of gs, each once (gs has distinct ids)
IsPermutationOfIds(ids, gs) ==
    /\ Len(ids) = Len(gs)
    /\ \A k \in 1..Len(gs) : \E j \in 1..Len(ids) : ids[j] = gs[k].id

\* C6: when the collection has pairwise distinct ids and the list shows
\* exactly its ids in some order, a drop leaves the collection in the order
\* shown, with the same items, none of them changed.
C6_DropReorders ==
    [][ ( /\ last'.op = "drop"
          /\ DistinctIds(goals)
          /\ IsPermutationOfIds(OrderedIds(goalsList), goals) )
        => /\ IdsOf(goals') = OrderedIds(goalsList)
           /\ Len(goals') = Len(goals)
           /\ \A k \in 1..Len(goals) :
                 \E j \in 1..Len(goals') : goals'[j] = goals[k]
      ]_vars

\* three goals with distinct ids, in an order that only a drop can produce
C6_Witness ==
    /\ last.op = "drop"
    /\ IdsOf(goals) = << NewId(1), "fisica-1", NewId(2) >>
    /\ OrderedIds(goalsList) = IdsOf(goals)
    /\ store.value = Serialize(goals)

\* r is t without its leading and trailing whitespace
IsTrimOf(r, t) ==
    \E i \in 1..(Len(t) + 1), j \in 0..Len(t) :
        /\ r = SubSeq(t, i, j)
        /\ \A k \in 1..(i - 1) : t[k] = " "
        /\ \A k \in (j + 1)..Len(t) : t[k] = " "
        /\ r # << >> => (r[1] # " " /\ r[Len(r)] # " ")

Blank(t) == \A k \in 1..Len(t) : t[k] = " "

\* C7: an add with a text that is not blank makes the collection one longer,
\* puts the new item first, not completed, with the trimmed text, and leaves
\* the items there were unchanged and in their order.
C7_AddPrepends ==
    [][ \A typed \in TypedTexts \cup { EmptyText }, clock \in 1..MaxClock :
          (HandleAddGoalOf(typed, clock) /\ ~Blank(typed))
          => /\ Len(goals') = Len(goals) + 1
             /\ goals'[1].completed = FALSE
             /\ IsTrimOf(goals'[1].text, typed)
             /\ Tail(goals') = goals
      ]_vars

\* an add in front of two goals; the text typed was " a "
C7_Witness ==
    /\ last.op = "add"
    /\ Len(goals) = 3
    /\ goals[1].id = last.target
    /\ goals[1].text = << "a" >>
    /\ ~goals[1].completed
    /\ goals[3].id = "fisica-1"

\* C8: an add with an empty or blank text changes neither the collection nor
\* the persisted snapshot and writes nothing to the store.
C8_BlankAddIsNoOp ==
    [][ \A typed \in TypedTexts \cup { EmptyText }, clock \in 1..MaxClock :
          (HandleAddGoalOf(typed, clock) /\ Blank(typed))
          => /\ goals' = goals
             /\ store' = store
             /\ last'.writes = 0
      ]_vars

\* a blank add on the defaults, nothing persisted before or after
C8_Witness ==
    /\ last.op = "add-blank"
    /\ last.writes = 0
    /\ Len(goals) = NumDefaults
    /\ ~store.present

\* C9: the completion hook is called once, with the page's category, by a
\* toggle that takes an item from not completed to completed, and by no
\* other step.
C9_HookOncePerCompletion ==
    [][ LET k == FindIndex(goals, last'.target)
            completing ==
                /\ last'.op = "toggle"
                /\ k # 0
                /\ ~goals[k].completed
                /\ goals'[k].completed
        IN  last'.hooks = IF completing THEN << "fisica" >> ELSE << >>
      ]_vars

\* a toggle that completed an item after a drop had moved it behind a default
C9_Witness ==
    /\ last.op = "toggle"
    /\ last.hooks = << "fisica" >>
    /\ IdsOf(goals) = << "fisica-1", NewId(2) >>
    /\ last.target = NewId(2)
    /\ goals[2].completed

\* C10: a toggle aimed at an item's id flips that item's completed field.
C10_ToggleFlipsItem ==
    [][ \A k \in 1..Len(goals) :
          (last'.op = "toggle" /\ last'.target = goals[k].id)
          => /\ Len(goals') = Len(goals)
             /\ goals'[k].completed = ~goals[k].completed
      ]_vars

\* C11: committing an edit (Enter or loss of focus) leaves the text of the
\* item with the edited id as it was when the text typed is blank, and
\* otherwise makes it the text typed without its leading and trailing
\* whitespace.
C11_CommitSetsText ==
    [][ last'.op \in {"blur", "enter"}
        => LET x == FirstEditing(goalsList)
               typed == goalsList[x].value
           IN  /\ Len(goals') = Len(goals)
               /\ \A k \in 1..Len(goals) :
                     goals[k].id = goalsList[x].id
                     => IF Blank(typed)
                        THEN goals'[k].text = goals[k].text
                        ELSE IsTrimOf(goals'[k].text, typed)
      ]_vars

\* C12: a commit of an edit whose text is blank, or is after trimming the
\* text the item already has, writes nothing to the store.
C12_CommitWritesOnlyOnChange ==
    [][ last'.op \in {"blur", "enter"}
        => LET x == FirstEditing(goalsList)
               typed == goalsList[x].value
               previous == CurrentText(goals, goalsList[x].id)
           IN  (Blank(typed) \/ IsTrimOf(previous, typed))
               => (last'.writes = 0 /\ store' = store)
      ]_vars

C14_LoadPrefersSnapshot ==
    last.op = "show"
        => Serialize(goals) =
               IF store.present /\ Len(store.value) > 0
               THEN store.value
               ELSE InitialDefaultGoals

\* C15: a delete aimed at an id leaves the collection without the item of
\* that id, every other item unchanged and in its place relative to the
\* others, and the stored value equal to the result.
C15_DeleteRemovesItem ==
    [][ last'.op = "delete"
        => /\ goals' = SelectSeq(goals, LAMBDA g : g.id # last'.target)
           /\ store'.present
           /\ store'.value = Serialize(goals')
      ]_vars

\* Pointer heights the anchor is probed at: every 10 px from the top of the
\* first box to below the last one (50 is the midpoint of the first box).
ProbeYs == { 10 * k : k \in 0..(10 * MaxGoals + 5) }

\* the children that are not being dragged and whose midpoint lies strictly
\* below the pointer (offset = y - top - height/2 < 0)
NegativeOffset(lst, y) ==
    { k \in 1..Len(lst) :
        ~lst[k].dragging /\ 2 * y < 2 * BoxTop(k) + LiHeight }

\* C16: getDragAfterElement returns no element when no child that is not
\* being dragged has a negative offset, and otherwise such a child whose
\* offset is the closest to zero; with three children (midpoints 50, 150,
\* 250), none dragged, y = 120 gives the child at 150 and y = 300 gives none.
C16_AnchorIsClosestBelow ==
    /\ \A y \in ProbeYs :
          LET anchor == GetDragAfterElement(goalsList, y)
              neg == NegativeOffset(goalsList, y)
          IN  IF neg = {} THEN anchor = 0
              ELSE /\ anchor \in neg
                   /\ \A k \in neg : BoxTop(anchor) <= BoxTop(k)
    /\ (Len(goalsList) = 3 /\ FirstDragging(goalsList) = 0)
          => /\ GetDragAfterElement(goalsList, 120) = 2
             /\ GetDragAfterElement(goalsList, 300) = 0

\* a dragover has moved the dragged element in a list of three; the anchor
\* at y = 120 is a child, the anchor at y = 300 is none
C16_Witness ==
    /\ last.op = "dragover"
    /\ Len(goalsList) = 3
    /\ FirstDragging(goalsList) = 1
    /\ OrderedIds(goalsList) # IdsOf(goals)
    /\ GetDragAfterElement(goalsList, 120) = 2
    /\ GetDragAfterElement(goalsList, 300) = 0

\* C17: the dragstart, its timeout, every dragover and the dragend leave the
\* collection and the persisted snapshot unchanged and write nothing; while
\* a gesture runs, the only step that changes the collection or the snapshot
\* is the drop.
C17_PreviewCommitsNothing ==
    [][ /\ last'.op \in {"dragstart", "dragtimer", "dragover", "dragend"}
           => (goals' = goals /\ store' = store /\ last'.writes = 0)
        /\ (gesture # "none" /\ (goals' # goals \/ store' # store))
           => last'.op = "drop"
      ]_vars

\* a gesture has ended without a drop after a dragover had moved the dragged
\* element: the list shows another order than the collection and the
\* snapshot, which are as they were
C17_Witness ==
    /\ last.op = "dragend"
    /\ gesture = "none"
    /\ DistinctIds(goals)
    /\ Len(goals) = 3
    /\ OrderedIds(goalsList) # IdsOf(goals)
    /\ store.value = Serialize(goals)

\* C18: after every handler step that renders the goal list, the list holds
\* one placeholder entry and nothing else when the collection is empty, and
\* otherwise one entry per item of the collection, in the collection's
\* order, showing that item's id, sanitized text, completed flag and time.
C18_RenderMirrorsCollection ==
    [][ last'.renders > 0
        => IF Len(goals') = 0
           THEN goalsList' = << PlaceholderLi >>
           ELSE /\ Len(goalsList') = Len(goals')
                /\ \A k \in 1..Len(goals') :
                      /\ ~goalsList'[k].placeholder
                      /\ goalsList'[k].id = goals'[k].id
                      /\ goalsList'[k].text = Sanitize(goals'[k].text)
                      /\ goalsList'[k].completed = goals'[k].completed
                      /\ goalsList'[k].time = goals'[k].time
      ]_vars

\* a toggle has rendered three goals in an order a drop had given them
C18_Witness ==
    /\ last.op = "toggle"
    /\ last.renders = 1
    /\ IdsOf(goals) = << "fisica-1", NewId(2), NewId(1) >>
    /\ OrderedIds(goalsList) = IdsOf(goals)
    /\ \A k \in 1..3 : ~goalsList[k].placeholder

TimestampsOf(rs) == [k \in 1..Len(rs) |-> rs[k].timestamp]

\* the search box, the category select and the date select filter nothing
\* and no recompute is pending
NothingFiltered ==
    /\ elements.searchInput = << >>
    /\ elements.categoryFilter = "all"
    /\ elements.dateFilter = "all"
    /\ ~timers.debounce

\* C19: the derived reflections view is ordered by timestamp, never
\* increasing when the sort order is "desc" and never decreasing when it is
\* "asc"; a log with the timestamps 1, 2, 3, unfiltered and sorted "desc",
\* comes out as 3, 2, 1.
C19_ViewOrderedByTimestamp ==
    /\ \A i, j \in 1..Len(filteredReflections) :
          i < j =>
              IF elements.sortFilter = "desc"
              THEN filteredReflections[i].timestamp
                       >= filteredReflections[j].timestamp
              ELSE filteredReflections[i].timestamp
                       <= filteredReflections[j].timestamp
    /\ ( /\ TimestampsOf(allReflections) = << 1, 2, 3 >>
         /\ elements.sortFilter = "desc"
         /\ NothingFiltered )
          => TimestampsOf(filteredReflections) = << 3, 2, 1 >>

\* the sort select was set to "desc" on the unfiltered log 1, 2, 3
C19_Witness ==
    /\ last.op = "sort-change"
    /\ elements.sortFilter = "desc"
    /\ NothingFiltered
    /\ TimestampsOf(allReflections) = << 1, 2, 3 >>
    /\ TimestampsOf(filteredReflections) = << 3, 2, 1 >>
    /\ elements.cards = << "r3", "r2", "r1" >>

\* the search box holds no term or one that the entry's text or title has
KeptBySearch(r) ==
    LET term == ToLowerCase(elements.searchInput)
    IN  \/ term = << >>
        \/ Includes(ToLowerCase(r.text), term)
        \/ Includes(ToLowerCase(r.title), term)

\* the date select is "all" or the entry is not older than its start time
KeptByDate(r) ==
    \/ elements.dateFilter = "all"
    \/ r.timestamp >= StartTime(elements.dateFilter, clockNow)

\* C20: when no recompute is pending, the derived view is the view computed
\* with the category "all" and the same other parameters, restricted (for a
\* category other than "all") to the entries of the selected category, in
\* the same relative order; with "all", every entry of the log that the
\* search and the date range keep is in the view, whatever its category.
C20_CategoryRestrictsView ==
    ~timers.debounce
        => LET viewAll ==
                   ApplyFilters(allReflections,
                                [elements EXCEPT !.categoryFilter = "all"],
                                clockNow)
               selected == elements.categoryFilter
           IN  /\ filteredReflections =
                      IF selected = "all" THEN viewAll
                      ELSE SelectSeq(viewAll, LAMBDA r : r.category = selected)
               /\ \A c \in CategoryNames :
                      ApplyFilters(allReflections,
                                   [elements EXCEPT !.categoryFilter = c],
                                   clockNow)
                          = SelectSeq(viewAll, LAMBDA r : r.category = c)
               /\ selected = "all"
                     => \A k \in 1..Len(allReflections) :
                           (KeptBySearch(allReflections[k])
                                /\ KeptByDate(allReflections[k]))
                           => \E j \in 1..Len(filteredReflections) :
                                 filteredReflections[j] = allReflections[k]

\* the category "Fisica" was selected on a log of four entries sorted "asc":
\* the entry of the other category, which the view of "all" has between two
\* of them, is gone and the three others keep their order
C20_Witness ==
    /\ last.op = "category-change"
    /\ elements.categoryFilter = "Fisica"
    /\ elements.sortFilter = "asc"
    /\ ~timers.debounce
    /\ allReflections = << R3, R4, R2, R1 >>
    /\ filteredReflections = << R1, R4, R3 >>
    /\ ApplyFilters(allReflections,
                    [elements EXCEPT !.categoryFilter = "all"], clockNow)
           = << R1, R4, R2, R3 >>

\* the parameters applyFilters reads from the controls
FilterInputs(el) ==
    << el.searchInput, el.categoryFilter, el.dateFilter, el.sortFilter >>

\* C21: a step that recomputes the derived view leaves the entry log as it
\* was (a show leaves it as loaded from the store), in content and in order;
\* the view it leaves is the one the log, the controls and the clock
\* determine, so that a recompute with the same log, controls and clock as
\* the one before leaves the same view.
C21_ViewIsPureFunction ==
    [][ last'.renders > 0
        => /\ allReflections' =
                  IF last'.op = "show-reflections"
                  THEN (IF unifiedReflections.present
                        THEN unifiedReflections.value ELSE << >>)
                  ELSE allReflections
           /\ filteredReflections' =
                  ApplyFilters(allReflections', elements', clockNow')
           /\ ( /\ ~timers.debounce
                /\ allReflections' = allReflections
                /\ FilterInputs(elements') = FilterInputs(elements)
                /\ clockNow' = clockNow )
              => filteredReflections' = filteredReflections
      ]_vars

\* the sort select was set to "asc" on a log that is in neither order: the
\* view is sorted, the log is as it was loaded
C21_Witness ==
    /\ last.op = "sort-change"
    /\ elements.sortFilter = "asc"
    /\ NothingFiltered
    /\ allReflections = << R3, R4, R2, R1 >>
    /\ unifiedReflections.value = allReflections
    /\ filteredReflections = << R1, R4, R2, R3 >>

\* local midnight of the current day: the multiple of DayLength that the
\* clock has reached last
Midnight == CHOOSE m \in 0..clockNow : m % DayLength = 0 /\ clockNow - m < DayLength

\* the start time the claim gives for each date range
ClaimedStart ==
    [ today |-> Midnight,
      week |-> (Midnight + DayLength - 1) - 7 * DayLength,
      month |-> (Midnight + DayLength - 1) - 30 * DayLength ]

\* what the claim says the date select keeps
InClaimedRange(r) ==
    CASE elements.dateFilter = "all" -> TRUE
      [] elements.dateFilter = "today" -> r.timestamp >= ClaimedStart.today
      [] elements.dateFilter = "week" -> r.timestamp >= ClaimedStart.week
      [] elements.dateFilter = "month" -> r.timestamp >= ClaimedStart.month

\* C22: when no recompute is pending, the view holds exactly the entries of
\* the log that the search and the category keep and whose timestamp is not
\* below the start time of the selected date range (midnight of the current
\* day for "today", the last tick of the current day less 7 days for "week"
\* and less 30 days for "month"); "all" drops nothing, and an entry is never
\* dropped for being later than the clock.
C22_DateRangeKeepsFromStart ==
    ~timers.debounce
        => LET kept == { k \in 1..Len(allReflections) :
                           /\ KeptBySearch(allReflections[k])
                           /\ elements.categoryFilter
                                  \in { "all", allReflections[k].category }
                           /\ InClaimedRange(allReflections[k]) }
           IN  /\ Len(filteredReflections) = Cardinality(kept)
               /\ \A k \in kept :
                     \E j \in 1..Len(filteredReflections) :
                         filteredReflections[j] = allReflections[k]

\* "week" was selected eight days after the first day: of the entries with
\* the timestamps 1, 2, 3 only the one at the start time 3 is kept
C22_Witness ==
    /\ last.op = "date-change"
    /\ elements.dateFilter = "week"
    /\ elements.categoryFilter = "all"
    /\ elements.searchInput = << >>
    /\ ~timers.debounce
    /\ clockNow = 8 * DayLength + 1
    /\ allReflections = << R1, R2, R3 >>
    /\ filteredReflections = << R3 >>

----------------------------------------------------------------------------
(* Financeira page: initial state and actions of the asset table *)

\* setup() has run; the store holds what an earlier session left
InitAssets ==
    /\ goals = << >>
    /\ defaultGoals = InitialDefaultGoals
    /\ store = AbsentStore
    /\ goalsList = << >>
    /\ now = 1
    /\ gesture = "none"
    /\ last = Did("setup", "", 0, 0, << >>)
    /\ ReflectionsPageAtRest
    /\ assets = << >>
    /\ editingAssetId = ""
    /\ financeAssets \in InitialAssetStores
    /\ assetElements =
          [nameInput |-> << >>, dateInput |-> EmptyDate, modal |-> "none",
           nameEdit |-> << >>, dateEdit |-> EmptyDate, rows |-> << >>]
    /\ pendingConfirm = ""

\* show() of the financeira page: the goals, then the assets, then both
\* renders
ShowFinanceira ==
    /\ Idle
    /\ LET savedGoals == store
           loaded ==
               IF savedGoals.present /\ Len(savedGoals.value) > 0
               THEN Deserialize(savedGoals.value)
               ELSE [k \in 1..Len(defaultGoals) |->
                        [id |-> defaultGoals[k].id,
                         text |-> defaultGoals[k].text,
                         completed |-> defaultGoals[k].completed,
                         time |-> defaultGoals[k].time,
                         ref |-> k]]
       IN  /\ goals' = loaded
           /\ goalsList' = RenderGoals(loaded, goalsList)
    /\ LET savedAssets == financeAssets
           loadedAssets ==
               IF savedAssets.present /\ Len(savedAssets.value) > 0
               THEN savedAssets.value
               ELSE DefaultAssets
       IN  /\ assets' = loadedAssets
           /\ assetElements' =
                 [assetElements EXCEPT !.rows = RenderAssets(loadedAssets)]
    /\ last' = Did("show-financeira", "", 0, 2, << >>)
    /\ UNCHANGED <<defaultGoals, store, now, gesture>>
    /\ UNCHANGED <<editingAssetId, financeAssets, pendingConfirm>>
    /\ UNCHANGED reflVars

\* Mutant of AddAssetRefused: only the name is looked at.
AddAssetRefusedOnNameOnly(name, purchaseDate) == name = EmptyText

\* if (!name || !purchaseDate)
AddAssetRefused(name, purchaseDate) ==
    name = EmptyText \/ purchaseDate = EmptyDate

\* the user fills the add form of the asset table
TypeAssetForm ==
    /\ Idle
    /\ \E name \in TypedAssetNames, date \in TypedAssetDates :
        /\ <<name, date>> # <<assetElements.nameInput, assetElements.dateInput>>
        /\ assetElements' =
              [assetElements EXCEPT !.nameInput = name, !.dateInput = date]
    /\ last' = Did("type-asset-form", "", 0, 0, << >>)
    /\ UNCHANGED <<assets, editingAssetId, financeAssets, pendingConfirm>>
    /\ UNCHANGED <<goalVars, reflVars>>

\* elements.assetForm.reset()
ResetForm(el) == [el EXCEPT !.nameInput = << >>, !.dateInput = EmptyDate]

\* submit of the add form of the asset table: handleAddAsset
HandleAddAsset ==
    /\ Idle
    /\ Len(assets) < MaxAssets
    /\ \E clock \in now..MaxClock :
        LET name == Trim(assetElements.nameInput)
            purchaseDate == assetElements.dateInput
        IN  IF AddAssetRefused(name, purchaseDate)
            THEN /\ clock = now
                 /\ last' = Did("add-asset", "", 0, 0, << "warning" >>)
                 /\ UNCHANGED <<assets, financeAssets, assetElements, now>>
            ELSE LET newAsset == [id |-> NewId(clock), name |-> name,
                                  purchaseDate |-> purchaseDate]
                     pushed == Append(assets, newAsset)
                 IN  /\ now' = clock
                     /\ assets' = pushed
                     /\ financeAssets' = AssetStoreSet(pushed)
                     /\ assetElements' =
                           ResetForm([assetElements EXCEPT
                                         !.rows = RenderAssets(pushed)])
                     /\ last' = Did("add-asset", newAsset.id, 1, 1, << >>)
    /\ UNCHANGED <<editingAssetId, pendingConfirm>>
    /\ UNCHANGED <<goals, defaultGoals, store, goalsList, gesture, reflVars>>

\* The parts of a row a click can land on.
AssetClickParts == { "edit-asset-btn", "delete-asset-btn", "cell" }

\* click in the asset table: handleAssetListClick up to its await; one
\* confirmation dialog is open at a time
HandleAssetListClick ==
    /\ Idle
    /\ \E k \in 1..Len(assetElements.rows), part \in AssetClickParts :
        LET assetId == assetElements.rows[k].id
            idx == FindIndex(assets, assetId)
        IN  /\ part = "delete-asset-btn" => pendingConfirm = ""
            /\ IF assetId = "" \/ idx = 0 \/ part = "cell"
               THEN /\ last' = Did("click-asset", "", 0, 0, << >>)
                    /\ UNCHANGED <<editingAssetId, assetElements,
                                   pendingConfirm>>
               ELSE IF part = "edit-asset-btn"
               THEN /\ editingAssetId' = assets[idx].id
                    /\ assetElements' =
                          OpenAssetEditModal(assetElements, assets[idx])
                    /\ last' = Did("open-asset-edit", assetId, 0, 0, << >>)
                    /\ UNCHANGED pendingConfirm
               ELSE /\ pendingConfirm' = assetId
                    /\ last' = Did("ask-delete-asset", assetId, 0, 0, << >>)
                    /\ UNCHANGED <<editingAssetId, assetElements>>
    /\ UNCHANGED <<assets, financeAssets>>
    /\ UNCHANGED <<goalVars, reflVars>>

\* the confirmation dialog is answered: the rest of handleAssetListClick
ConfirmResolves ==
    /\ pendingConfirm # ""
    /\ \E confirmed \in BOOLEAN :
        IF confirmed
        THEN LET kept == FilterOutAsset(assets, pendingConfirm)
             IN  /\ assets' = kept
                 /\ financeAssets' = AssetStoreSet(kept)
                 /\ assetElements' =
                       [assetElements EXCEPT !.rows = RenderAssets(kept)]
                 /\ last' = Did("delete-asset", pendingConfirm, 1, 1,
                                << "success" >>)
        ELSE /\ last' = Did("keep-asset", pendingConfirm, 0, 0, << >>)
             /\ UNCHANGED <<assets, financeAssets, assetElements>>
    /\ pendingConfirm' = ""
    /\ UNCHANGED editingAssetId
    /\ UNCHANGED <<goalVars, reflVars>>

\* the user changes the inputs of the edit modal
TypeAssetEdit ==
    /\ Idle
    /\ assetElements.modal = "flex"
    /\ \E name \in EditedAssetNames \cup { assetElements.nameEdit },
          date \in EditedAssetDates \cup { assetElements.dateEdit } :
        /\ <<name, date>> # <<assetElements.nameEdit, assetElements.dateEdit>>
        /\ assetElements' =
              [assetElements EXCEPT !.nameEdit = name, !.dateEdit = date]
    /\ last' = Did("type-asset-edit", editingAssetId, 0, 0, << >>)
    /\ UNCHANGED <<assets, editingAssetId, financeAssets, pendingConfirm>>
    /\ UNCHANGED <<goalVars, reflVars>>

\* closeAssetEditModal() on the elements el
ClosedModal(el) == [el EXCEPT !.modal = "none"]

\* Mutant of SavedAssets: the save renames every asset.
SavedAssetsAll(as, assetIndex, newName, newDate) ==
    [k \in 1..Len(as) |->
        [as[k] EXCEPT !.name = newName, !.purchaseDate = newDate]]

\* assets[assetIndex].name = newName; assets[assetIndex].purchaseDate = newDate
SavedAssets(as, assetIndex, newName, newDate) ==
    [as EXCEPT ![assetIndex].name = newName,
               ![assetIndex].purchaseDate = newDate]

\* submit of the form of the edit modal: handleSaveAssetEdit
HandleSaveAssetEdit ==
    /\ Idle
    /\ assetElements.modal = "flex"
    /\ LET assetIndex == FindIndex(assets, editingAssetId)
           newName == Trim(assetElements.nameEdit)
           newDate == assetElements.dateEdit
       IN  IF editingAssetId = "" \/ assetIndex = 0
           THEN /\ last' = Did("save-asset-edit", editingAssetId, 0, 0, << >>)
                /\ UNCHANGED <<assets, editingAssetId, financeAssets,
                               assetElements>>
           ELSE IF newName = EmptyText \/ newDate = EmptyDate
           THEN /\ last' = Did("save-asset-edit", editingAssetId, 0, 0,
                               << "warning" >>)
                /\ UNCHANGED <<assets, editingAssetId, financeAssets,
                               assetElements>>
           ELSE LET saved == SavedAssets(assets, assetIndex, newName, newDate)
                IN  /\ assets' = saved
                    /\ financeAssets' = AssetStoreSet(saved)
                    /\ assetElements' =
                          ClosedModal([assetElements EXCEPT
                                          !.rows = RenderAssets(saved)])
                    /\ editingAssetId' = ""
                    /\ last' = Did("save-asset-edit", editingAssetId, 1, 1,
                                   << "success" >>)
    /\ UNCHANGED pendingConfirm
    /\ UNCHANGED <<goalVars, reflVars>>

\* click on the close or the cancel button of the modal: closeAssetEditModal
CloseAssetEditModal ==
    /\ Idle
    /\ assetElements.modal = "flex"
    /\ assetElements' = ClosedModal(assetElements)
    /\ editingAssetId' = ""
    /\ last' = Did("close-asset-edit", editingAssetId, 0, 0, << >>)
    /\ UNCHANGED <<assets, financeAssets, pendingConfirm>>
    /\ UNCHANGED <<goalVars, reflVars>>

\* Sessions worked with the asset table of the financeira page.
NextAssets ==
    \/ ShowFinanceira
    \/ TypeAssetForm
    \/ HandleAddAsset
    \/ HandleAssetListClick
    \/ ConfirmResolves
    \/ TypeAssetEdit
    \/ HandleSaveAssetEdit
    \/ CloseAssetEditModal

SpecAssets == InitAssets /\ [][NextAssets]_vars

----------------------------------------------------------------------------
(* Claims about the asset table *)

\* C23: a submit of the asset form with a blank name or an empty purchase
\* date inserts nothing, writes nothing to the store and raises a warning;
\* with both fields present exactly one asset, carrying the trimmed name and
\* the given date, is added to the list, and the list is persisted.
C23_AddAssetValidates ==
    [][ last'.op = "add-asset"
        => IF Blank(assetElements.nameInput)
              \/ assetElements.dateInput = EmptyDate
           THEN /\ assets' = assets
                /\ financeAssets' = financeAssets
                /\ last'.writes = 0
                /\ last'.hooks = << "warning" >>
           ELSE /\ Len(assets') = Len(assets) + 1
                /\ SubSeq(assets', 1, Len(assets)) = assets
                /\ IsTrimOf(assets'[Len(assets')].name,
                            assetElements.nameInput)
                /\ assets'[Len(assets')].purchaseDate
                      = assetElements.dateInput
                /\ financeAssets' = [present |-> TRUE, value |-> assets'] ]_vars

\* An asset was added from a padded name, after a submit was refused.
C23_Witness ==
    /\ last.op = "add-asset"
    /\ last.writes = 1
    /\ Len(assets) = 2
    /\ assets[2].name = << "n" >>
    /\ assets[2].purchaseDate = 2020
    /\ financeAssets.present /\ financeAssets.value = assets

\* C24: a submit of the edit modal whose asset is in the list, with a blank
\* name or an empty date, leaves the list and the store as they were, raises
\* a warning and keeps the session open on the same asset; with both fields
\* present it changes the name (trimmed) and the purchase date of one asset
\* carrying the session's id and nothing else, persists the list and closes
\* the session.
C24_SaveAssetEditValidates ==
    [][ ( /\ last'.op = "save-asset-edit"
          /\ \E k \in 1..Len(assets) : assets[k].id = editingAssetId )
        => IF Blank(assetElements.nameEdit)
              \/ assetElements.dateEdit = EmptyDate
           THEN /\ assets' = assets
                /\ financeAssets' = financeAssets
                /\ last'.hooks = << "warning" >>
                /\ editingAssetId' = editingAssetId
                /\ assetElements'.modal = "flex"
           ELSE /\ \E k \in 1..Len(assets) :
                     /\ assets[k].id = editingAssetId
                     /\ Len(assets') = Len(assets)
                     /\ \A j \in 1..Len(assets) :
                           j # k => assets'[j] = assets[j]
                     /\ assets'[k].id = assets[k].id
                     /\ IsTrimOf(assets'[k].name, assetElements.nameEdit)
                     /\ assets'[k].purchaseDate = assetElements.dateEdit
                /\ financeAssets' = [present |-> TRUE, value |-> assets']
                /\ editingAssetId' = ""
                /\ assetElements'.modal = "none" ]_vars

\* A valid save went through in a list of two assets: the second asset was
\* renamed and re-dated, the first was not.
C24_Witness ==
    /\ last.op = "save-asset-edit"
    /\ last.writes = 1
    /\ editingAssetId = ""
    /\ Len(assets) = 2
    /\ assets[1].name = << "Notebook" >>
    /\ assets[2].name = << "m" >>
    /\ assets[2].purchaseDate = 2021

\* how many assets of the list carry the id
CountOfId(as, id) == Cardinality({ k \in 1..Len(as) : as[k].id = id })

\* C25: an asset leaves the list and the store only in the step in which a
\* confirmation is answered positively; a declined confirmation leaves both
\* as they were; a positive one removes exactly one asset, the targeted one,
\* and keeps every other asset of the list as it is at that moment (added
\* or edited while the confirmation was pending included), in its order.
C25_DeleteAfterConfirmation ==
    [][ /\ (\E k \in 1..Len(assets) :
               CountOfId(assets', assets[k].id) < CountOfId(assets, assets[k].id))
           => last'.op = "delete-asset"
        /\ last'.op = "keep-asset"
           => assets' = assets /\ financeAssets' = financeAssets
        /\ last'.op = "delete-asset"
           => /\ \E k \in 1..Len(assets) :
                    /\ assets[k].id = pendingConfirm
                    /\ assets' = Without(assets, k)
              /\ financeAssets' = [present |-> TRUE, value |-> assets'] ]_vars

----------------------------------------------------------------------------
(* The sort of the drop handler as a function of the collection and of the
   id list it is given *)

\* the ids the collections of this specification are made of
ReorderIds == { "1", "2", "3" }

\* the sequences over S without repetition, the empty one included
SeqsWithoutRepetition(S) ==
    UNION { { f \in [1..n -> S] : \A i, j \in 1..n : i # j => f[i] # f[j] } :
            n \in 0..Cardinality(S) }

GoalOfId(id) ==
    [id |-> id, text |-> << "a" >>, completed |-> FALSE, time |-> "", ref |-> 0]

\* a collection with pairwise distinct ids, and a list element whose items
\* are some of the collection's, in any order
InitReorder ==
    /\ \E ids \in SeqsWithoutRepetition(ReorderIds) \ { << >> } :
          goals = [k \in 1..Len(ids) |-> GoalOfId(ids[k])]
    /\ \E shown \in SeqsWithoutRepetition({ goals[k].id : k \in 1..Len(goals) }) :
          goalsList = [k \in 1..Len(shown) |-> NewLi(GoalOfId(shown[k]))]
    /\ defaultGoals = InitialDefaultGoals
    /\ store = AbsentStore
    /\ now = 1
    /\ gesture = "none"
    /\ last = Did("setup", "", 0, 0, << >>)
    /\ ReflectionsPageAtRest
    /\ AssetTableAtRest

\* the statements of the drop handler that read the ids, sort and save
Reorder ==
    /\ LET newOrderedIds == OrderedIds(goalsList)
           sorted == SortGoals(goals, newOrderedIds)
       IN  /\ goals' = sorted
           /\ store' = StoreSet(sorted)
           /\ last' = Did("reorder", "", 1, 0, << >>)
    /\ UNCHANGED <<defaultGoals, goalsList, now, gesture>>
    /\ UNCHANGED <<reflVars, assetVars>>

NextReorder == Reorder

SpecReorder == InitReorder /\ [][NextReorder]_vars

\* the place of the item with this id in the collection (ids are distinct)
PlaceOf(gs, id) == CHOOSE k \in 1..Len(gs) : gs[k].id = id

IdsIn(gs) == { gs[k].id : k \in 1..Len(gs) }

Omitted(ids, id) == \A k \in 1..Len(ids) : ids[k] # id

----------------------------------------------------------------------------
(* Drag gestures in which the dragend event may come before the timeout
   that dragstart set *)

\* dragend on the element the gesture started on, whenever the browser
\* sends it: the timeout of the dragstart may not have fired yet
DragEndAnyTime ==
    /\ gesture \in {"drag", "dropped"}
    /\ LET target == FirstSource(goalsList)
       IN  /\ goalsList' = [goalsList EXCEPT ![target].dragging = FALSE,
                                             ![target].source = FALSE]
           /\ last' = Did("dragend", goalsList[target].id, 0, 0, << >>)
    /\ gesture' = "none"
    /\ UNCHANGED <<goals, defaultGoals, store, now>>
    /\ UNCHANGED <<reflVars, assetVars>>

NextDragRace ==
    \/ Show
    \/ HandleAddGoal
    \/ DragStart
    \/ DragTimer
    \/ DragOver
    \/ Drop
    \/ DragEndAnyTime

SpecDragRace == Init /\ [][NextDragRace]_vars

\* the elements of the list that carry the class "dragging"
Dragging(lst) == { k \in 1..Len(lst) : lst[k].dragging }

\* C27: at most one element of the list carries the "dragging" marker, and
\* when no gesture is running and no timeout of a dragstart is pending, no
\* element carries it, in whichever order the timeout and the dragend came.
C27_DraggingMarkerIsTransient ==
    /\ Cardinality(Dragging(goalsList)) <= 1
    /\ (gesture = "none" /\ FirstPending(goalsList) = 0)
          => Dragging(goalsList) = { }

----------------------------------------------------------------------------
(* Reflections page: deleting an entry *)

MaxRemovals == 2    \* a delete is not offered while this many timeouts pend

\* click on the delete button of a card: handleDeleteReflection up to its
\* await; one confirmation dialog is open at a time
DeleteClick ==
    /\ timers.confirming = ""
    /\ Len(timers.removals) < MaxRemovals
    /\ \E k \in 1..Len(elements.cards) :
        /\ timers' = [timers EXCEPT !.confirming = elements.cards[k]]
        /\ last' = Did("ask-delete-reflection", elements.cards[k], 0, 0, << >>)
    /\ UNCHANGED <<allReflections, filteredReflections, elements,
                   unifiedReflections, clockNow, goalVars, assetVars>>

\* Mutant of ConfirmedRemovals: a confirmed delete cancels the timeouts
\* that were pending, as a debounce would.
ConfirmedRemovalsLatestOnly(removals, id, confirmed) ==
    IF confirmed THEN << id >> ELSE removals

\* if (confirmed) setTimeout(.., 300): the timeouts pending afterwards
ConfirmedRemovals(removals, id, confirmed) ==
    IF confirmed THEN Append(removals, id) ELSE removals

\* the confirmation dialog is answered: the rest of handleDeleteReflection
\* (the class "fade-out" it sets on the card is presentation only)
ConfirmAnswered ==
    /\ timers.confirming # ""
    /\ \E confirmed \in BOOLEAN :
        /\ timers' = [timers EXCEPT
                         !.confirming = "",
                         !.removals = ConfirmedRemovals(@, timers.confirming,
                                                        confirmed)]
        /\ last' = Did(IF confirmed THEN "confirm-delete-reflection"
                                    ELSE "keep-reflection",
                       timers.confirming, 0, 0, << >>)
    /\ UNCHANGED <<allReflections, filteredReflections, elements,
                   unifiedReflections, clockNow, goalVars, assetVars>>

\* Mutant of WithoutReflection: the timeout removes nothing.
WithoutNothing(log, id) == log

\* allReflections.filter(r => r.id !== reflectionId)
WithoutReflection(log, id) == SelectSeq(log, LAMBDA r : r.id # id)

\* the timeout of the oldest confirmed delete fires (timeouts of one delay
\* fire in the order they were set)
RemovalTimer ==
    /\ timers.removals # << >>
    /\ LET reflectionId == Head(timers.removals)
           kept == WithoutReflection(allReflections, reflectionId)
           filtered == ApplyFilters(kept, elements, clockNow)
       IN  /\ allReflections' = kept
           /\ unifiedReflections' = [present |-> TRUE, value |-> kept]
           /\ filteredReflections' = filtered
           /\ elements' = RenderReflections(elements, filtered)
           /\ last' = Did("remove-reflection", reflectionId, 1, 1,
                          << "success" >>)
    /\ timers' = [timers EXCEPT !.removals = Tail(@)]
    /\ UNCHANGED <<clockNow, goalVars, assetVars>>

\* setup() has run; the sort select is at "desc" and the date select stays
\* at "all", which makes the clock immaterial
InitReflectionsDelete ==
    /\ goals = << >>
    /\ defaultGoals = InitialDefaultGoals
    /\ store = AbsentStore
    /\ goalsList = << >>
    /\ now = 1
    /\ gesture = "none"
    /\ last = Did("setup", "", 0, 0, << >>)
    /\ AssetTableAtRest
    /\ allReflections = << >>
    /\ filteredReflections = << >>
    /\ elements = ElementsAfterSetup("desc")
    /\ unifiedReflections \in InitialReflectionStores
    /\ clockNow = DayLength + 1
    /\ timers = NoTimers

\* Sessions on the reflections page in which entries are deleted.
NextReflectionsDelete ==
    \/ ShowReflections
    \/ CategoryChange
    \/ SearchInput
    \/ DebouncedRender
    \/ DeleteClick
    \/ ConfirmAnswered
    \/ RemovalTimer

SpecReflectionsDelete == InitReflectionsDelete /\ [][NextReflectionsDelete]_vars

\* the ids whose removal timeout is pending
PendingRemovals == { timers.removals[k] : k \in 1..Len(timers.removals) }

\* the entry is in the view
InView(view, r) == \E j \in 1..Len(view) : view[j] = r

\* the search term and the category of the controls el keep the entry
KeptByControls(el, r) ==
    /\ LET term == ToLowerCase(el.searchInput)
       IN  \/ term = << >>
           \/ Includes(ToLowerCase(r.text), term)
           \/ Includes(ToLowerCase(r.title), term)
    /\ el.categoryFilter \in { "all", r.category }

\* C28: a confirmed reflection delete removes nothing by itself: an entry
\* leaves the log or the store only when the 300 ms timeout fires, and a view
\* recomputed while the timeout is pending holds the entry if the search and
\* the category keep it; the timeout removes the entry from the log, writes
\* the log to the store and recomputes the view; a declined confirmation
\* removes nothing and schedules nothing.
C28_DeleteIsDeferred ==
    [][ /\ last'.op = "confirm-delete-reflection"
           => /\ allReflections' = allReflections
              /\ unifiedReflections' = unifiedReflections
              /\ timers'.removals = Append(timers.removals, timers.confirming)
        /\ last'.op = "keep-reflection"
           => /\ allReflections' = allReflections
              /\ unifiedReflections' = unifiedReflections
              /\ timers'.removals = timers.removals
        /\ (\E k \in 1..Len(allReflections) :
               \A j \in 1..Len(allReflections') :
                  allReflections'[j].id # allReflections[k].id)
           => last'.op = "remove-reflection"
        /\ (last'.renders > 0 /\ last'.op # "remove-reflection")
           => \A k \in 1..Len(allReflections') :
                 ( /\ allReflections'[k].id \in PendingRemovals'
                   /\ KeptByControls(elements', allReflections'[k]) )
                 => InView(filteredReflections', allReflections'[k])
        /\ last'.op = "remove-reflection"
           => /\ \A j \in 1..Len(allReflections') :
                    allReflections'[j].id # last'.target
              /\ \E removed \in SUBSET (1..Len(allReflections)) :
                    /\ \A k \in 1..Len(allReflections) :
                          k \in removed <=> allReflections[k].id = last'.target
                    /\ Len(allReflections')
                          = Len(allReflections) - Cardinality(removed)
                    /\ \A k \in 1..Len(allReflections) :
                          k \notin removed
                             => allReflections'[k - Cardinality({ i \in removed : i < k })]
                                   = allReflections[k]
              /\ unifiedReflections' = [present |-> TRUE, value |-> allReflections']
              /\ last'.renders = 1
              /\ \A k \in 1..Len(allReflections') :
                    KeptByControls(elements', allReflections'[k])
                       <=> InView(filteredReflections', allReflections'[k]) ]_vars

\* The timeout of a confirmed delete has removed an entry that a recompute
\* made while it was pending had shown.
C28_Witness ==
    /\ last.op = "remove-reflection"
    /\ last.target = "r2"
    /\ allReflections = << R1, R3 >>
    /\ unifiedReflections.value = << R1, R3 >>
    /\ elements.categoryFilter = "Mental"
    /\ filteredReflections = << >>

\* C29: an input in the search box recomputes nothing, it leaves one
\* recompute pending, however many inputs came before it; the pending
\* recompute, when its quiet period has elapsed, is made once, with the term
\* the box holds then (the latest one), and leaves none pending; a change of
\* the category, date or sort select recomputes the view in the same step.
C29_SearchIsDebounced ==
    [][ /\ last'.op = "search-input"
           => /\ last'.renders = 0
              /\ filteredReflections' = filteredReflections
              /\ elements'.cards = elements.cards
              /\ timers'.debounce
        /\ last'.op = "debounced-render"
           => /\ timers.debounce /\ ~timers'.debounce
              /\ last'.renders = 1
              /\ elements'.searchInput = elements.searchInput
              /\ filteredReflections'
                    = ApplyFilters(allReflections, elements, clockNow)
              /\ \A j \in 1..Len(filteredReflections') :
                    KeptByControls(elements, filteredReflections'[j])
        /\ last'.op \in { "category-change", "date-change", "sort-change" }
           => /\ last'.renders = 1
              /\ timers' = timers
              /\ filteredReflections'
                    = ApplyFilters(allReflections, elements', clockNow) ]_vars

\* The recompute after the quiet period was made with the term typed last:
\* of a log of three entries the view keeps the one the term is found in.
C29_Witness ==
    /\ last.op = "debounced-render"
    /\ ~timers.debounce
    /\ elements.searchInput = << "a", "b" >>
    /\ elements.categoryFilter = "all"
    /\ elements.dateFilter = "all"
    /\ allReflections = << R1, R2, R3 >>
    /\ filteredReflections = << R2 >>

----------------------------------------------------------------------------
(* The handlers aimed at an item that its collection no longer holds *)

\* the list as rendered for the goals `shown`, with the inline editor open
\* on its e-th element (none for e = 0) holding the text t
ListShowing(shown, e, t) ==
    LET fresh == [k \in 1..Len(shown) |-> NewLi(GoalOfId(shown[k]))]
    IN  IF e = 0 THEN fresh
        ELSE [fresh EXCEPT ![e].editing = TRUE, ![e].value = t]

\* the goals the list of this specification shows
ShownIds == << "1", "2", "3" >>

\* the subsequences of a sequence of distinct elements
SubSeqsOf(seq) ==
    { f \in SeqsWithoutRepetition({ seq[k] : k \in 1..Len(seq) }) :
         \A i, j \in 1..Len(f) :
            i < j => (CHOOSE k \in 1..Len(seq) : seq[k] = f[i])
                        < (CHOOSE k \in 1..Len(seq) : seq[k] = f[j]) }

\* The list shows goals of which the collection holds any part, and the
\* edit modal is open on an asset that the asset list holds or has lost.
InitMissingTarget ==
    /\ \E ids \in SubSeqsOf(ShownIds) :
          goals = [k \in 1..Len(ids) |-> GoalOfId(ids[k])]
    /\ \E e \in 0..Len(ShownIds), t \in EditTexts :
          /\ e = 0 => t = << " " >>
          /\ goalsList = ListShowing(ShownIds, e, t)
    /\ defaultGoals = InitialDefaultGoals
    /\ store = StoreSet(goals)
    /\ now = 1
    /\ gesture = "none"
    /\ last = Did("setup", "", 0, 0, << >>)
    /\ ReflectionsPageAtRest
    /\ assets \in { << >>, DefaultAssets }
    /\ editingAssetId = DefaultAssets[1].id
    /\ financeAssets = AssetStoreSet(assets)
    /\ assetElements =
          [nameInput |-> << >>, dateInput |-> EmptyDate, modal |-> "flex",
           nameEdit |-> DefaultAssets[1].name,
           dateEdit |-> DefaultAssets[1].purchaseDate,
           rows |-> RenderAssets(assets)]
    /\ pendingConfirm = ""

NextMissingTarget ==
    \/ HandleGoalAction
    \/ TypeEdit
    \/ Blur
    \/ KeyDown
    \/ HandleSaveAssetEdit

SpecMissingTarget == InitMissingTarget /\ [][NextMissingTarget]_vars

\* C30: a click on the checkbox, label, edit or delete button of a list
\* element, or a commit of its inline editor, whose id no goal of the
\* collection carries, and a save of the edit modal whose asset is not in the
\* asset list, change no item, write nothing to the store and report nothing.
C30_MissingTargetIsNoOp ==
    [][ /\ ( /\ last'.op \in { "click-ignored", "edit", "delete", "toggle",
                               "blur", "enter" }
             /\ last'.target # ""
             /\ \A k \in 1..Len(goals) : goals[k].id # last'.target )
           => /\ goals' = goals
              /\ defaultGoals' = defaultGoals
              /\ store' = store
              /\ last'.writes = 0
              /\ last'.hooks = << >>
        /\ ( /\ last'.op = "save-asset-edit"
             /\ \A k \in 1..Len(assets) : assets[k].id # editingAssetId )
           => /\ assets' = assets
              /\ financeAssets' = financeAssets
              /\ last'.writes = 0
              /\ last'.hooks = << >> ]_vars

\* An editor whose goal is gone was committed with a text that is not blank:
\* the two goals of the collection are as they were.
C30_Witness ==
    /\ last.op = "blur"
    /\ last.target = "3"
    /\ last.writes = 0
    /\ Len(goals) = 2
    /\ \A k \in 1..Len(goals) : goals[k].id # "3" /\ goals[k].text = << "a" >>

----------------------------------------------------------------------------
(* Claims about what the goal operations leave alone *)

\* the id and the time of every goal, in the order of the collection
IdAndTime(gs) == [k \in 1..Len(gs) |-> << gs[k].id, gs[k].time >>]

\* how many members of the sequence equal x
CountIn(seq, x) == Cardinality({ k \in 1..Len(seq) : seq[k] = x })

\* C31: a toggle changes the completed field of one goal carrying the
\* targeted id and nothing else; a commit of the inline editor changes the
\* text of one goal carrying the editor's id, to the editor's trimmed value,
\* or changes nothing; id, time and position of that goal and every field
\* of every other goal stay.  No operation changes the id or the time of a
\* goal the collection holds: an add puts its goal before them, a delete
\* takes one out, a drop permutes them, a show leaves them as they are.
C31_ToggleAndEditFrame ==
    [][ /\ last'.op = "toggle"
           => \E k \in 1..Len(goals) :
                 /\ goals[k].id = last'.target
                 /\ goals' = [goals EXCEPT ![k].completed = ~goals[k].completed]
        /\ last'.op \in { "blur", "enter", "edit" }
           => \/ goals' = goals
              \/ \E k \in 1..Len(goals), e \in 1..Len(goalsList) :
                    /\ goalsList[e].editing
                    /\ goals[k].id = goalsList[e].id
                    /\ IsTrimOf(goals'[k].text, goalsList[e].value)
                    /\ goals' = [goals EXCEPT ![k].text = goals'[k].text]
        /\ last'.op \in { "toggle", "blur", "enter", "edit", "escape", "key",
                          "type-edit", "click-ignored", "add-blank" }
           => IdAndTime(goals') = IdAndTime(goals)
        /\ last'.op = "add"
           => Tail(IdAndTime(goals')) = IdAndTime(goals)
        /\ last'.op = "delete"
           => \E k \in 1..Len(goals) :
                 IdAndTime(goals') = Without(IdAndTime(goals), k)
        /\ last'.op = "drop"
           => /\ Len(goals') = Len(goals)
              /\ \A k \in 1..Len(goals) :
                    CountIn(IdAndTime(goals'), IdAndTime(goals)[k])
                       = CountIn(IdAndTime(goals), IdAndTime(goals)[k])
        /\ (last'.op = "show" /\ goals # << >>)
           => IdAndTime(goals') = IdAndTime(goals) ]_vars

\* The editor of the second of two goals was committed with a new text: the
\* goal keeps its id, its time and its completed field, the first goal is as
\* it was added.
C31_Witness ==
    /\ last.op = "blur"
    /\ last.target = NewId(0)
    /\ last.writes = 1
    /\ Len(goals) = 2
    /\ goals[1].id = NewId(1) /\ goals[1].text = << "a" >>
    /\ goals[2].id = NewId(0) /\ goals[2].text = << "b" >>
    /\ goals[2].time = "08:00" /\ goals[2].completed

\* C32: whenever no drag gesture is in progress, the list shows the goals in
\* the collection's order (and shows no goal when the collection is empty).
C32_ListOrderIsCollectionOrder ==
    (gesture = "none" /\ FirstPending(goalsList) = 0)
       => IF goals = << >>
          THEN \A k \in 1..Len(goalsList) : goalsList[k].placeholder
          ELSE OrderedIds(goalsList) = IdsOf(goals)

----------------------------------------------------------------------------
(* Claims about deletes whose timeouts overlap *)

\* what a load of the store gives
StoredLog(st) == IF st.present THEN st.value ELSE << >>

\* C33: deletes of different reflections confirmed before either timeout has
\* fired are both carried out and remove nothing else.  Step by step: a
\* timeout that fires is the oldest pending one, the others stay pending; it
\* reads the log as it is then (not as it was at the confirmation), takes out
\* exactly the entries carrying its id, keeps every other entry, and writes
\* the log it leaves to the store; every other step leaves the store and the
\* pending timeouts as they are, or adds one timeout, and leaves the log as
\* it is or loads it from the store.  So after both timeouts, whichever was
\* set first, both entries are absent from the log and the store and every
\* other entry is still in both.
C33_OverlappingDeletesBothApply ==
    [][ /\ last'.op = "remove-reflection"
           => /\ timers.removals # << >>
              /\ last'.target = Head(timers.removals)
              /\ timers'.removals = Tail(timers.removals)
              /\ \A k \in 1..Len(allReflections) :
                    CountIn(allReflections', allReflections[k])
                       = IF allReflections[k].id = last'.target
                         THEN 0
                         ELSE CountIn(allReflections, allReflections[k])
              /\ \A j \in 1..Len(allReflections') :
                    CountIn(allReflections, allReflections'[j]) > 0
              /\ unifiedReflections'
                    = [present |-> TRUE, value |-> allReflections']
        /\ last'.op # "remove-reflection"
           => /\ unifiedReflections' = unifiedReflections
              /\ \/ timers'.removals = timers.removals
                 \/ /\ last'.op = "confirm-delete-reflection"
                    /\ timers'.removals
                          = Append(timers.removals, last'.target)
              /\ \/ allReflections' = allReflections
                 \/ /\ last'.op = "show-reflections"
                    /\ allReflections' = StoredLog(unifiedReflections) ]_vars

\* The timeouts of the deletes of r2 and r1 have both fired: r2's first, while
\* r1's was pending, then r1's; the log and the store hold the two other
\* entries of the four.
C33_Witness ==
    /\ last.op = "remove-reflection"
    /\ last.target = "r1"
    /\ timers.removals = << >>
    /\ allReflections = << R3, R4 >>
    /\ unifiedReflections = [present |-> TRUE, value |-> << R3, R4 >>]

----------------------------------------------------------------------------
(* Claims about clicks on an item in edit mode *)

\* the handler steps that a click inside the list can be
ClickOps == { "click-ignored", "edit", "delete", "toggle" }

\* the click that made the step fell on a <li> in edit mode: the list held
\* such a <li> with the id of the click, and no other <li> with that id
ClickedWhileEditing(lst, op, id) ==
    /\ op \in ClickOps
    /\ \E i \in 1..Len(lst) :
          /\ lst[i].editing
          /\ lst[i].id = id
          /\ \A j \in 1..Len(lst) : j # i => lst[j].id # id

\* C34: a click on an item that is in edit mode, whatever part of it is
\* clicked, is ignored: the collection, the default objects, the store and
\* the list (the editor and what was typed in it included) are unchanged,
\* there is no store write, no hook call and no render.
C34_ClickOnEditedItemIsIgnored ==
    [][ ClickedWhileEditing(goalsList, last'.op, last'.target)
        => /\ last'.op = "click-ignored"
           /\ last'.writes = 0
           /\ last'.renders = 0
           /\ last'.hooks = << >>
           /\ UNCHANGED <<goals, defaultGoals, store, goalsList>> ]_vars

\* The added item is in edit mode with a typed text and was clicked: its
\* editor, the collection and the store are as before the click.
C34_Witness ==
    /\ last.op = "click-ignored"
    /\ last.target = NewId(1)
    /\ Len(goals) = 2
    /\ goals[1].id = NewId(1) /\ goals[1].text = << "a" >>
    /\ ~goals[1].completed
    /\ goals[2].id = NewId(0)
    /\ goalsList[1].editing
    /\ goalsList[1].value = << " ", "b", " " >>
    /\ store.value = Serialize(goals)

====
